---- MODULE Spec2Model ----
(***************************************************************************)
(* speakleash-forum-tools: forum discovery (forum_engines.py) and the      *)
(* multiprocess extraction pipeline (src/scraper.py).                      *)
(*                                                                         *)
(* Strings are sequences of tokens.  A URL is <<"S", "/", "t1">>: "S" is   *)
(* the scheme and host of the forum (DATASET_URL, no trailing slash), "X"  *)
(* the scheme and host of another site, "/" the path separator.  A rule    *)
(* string "a >> class :: topictitle" is <<"a", ">>", "class", "::",        *)
(* "topictitle">>, the separators " >> " and " :: " being one token each.  *)
(* A text is a sequence of characters: "x" (printable), "_" (a blank) and  *)
(* "n" (the newline of text_separator).                                    *)
(***************************************************************************)
EXTENDS Integers, Sequences, FiniteSets, TLC

(***************************************************************************)
(* Bounds of the model.                                                    *)
(***************************************************************************)
MaxTopics == 3      \* topic URLs handed to one extraction run
PROCESSES == 2      \* settings["PROCESSES"]: size of the worker pool
SAVE_STATE == 2     \* settings["SAVE_STATE"]: the checkpoint interval K
MIN_LEN_TXT == 2    \* settings["MIN_LEN_TXT"]
MaxPage == 2        \* listing pages of a discovery site are 0..MaxPage, 0 the root

(***************************************************************************)
(* Program constants.                                                      *)
(***************************************************************************)
SizeCeiling == 15000000

(***************************************************************************)
(* Python values the code relies on.                                       *)
(***************************************************************************)
None == <<"<None>">>            \* None (and a missing attribute), typed as a string
Raise == [exc |-> TRUE]         \* a call that ended by raising
IsRaise(r) == r.exc
IsSpace(c) == c \in {"_", "n"}

\* str.strip(): leading and trailing white space removed
RECURSIVE LStrip(_)
LStrip(s) == IF s # <<>> /\ IsSpace(Head(s)) THEN LStrip(Tail(s)) ELSE s

RECURSIVE RStrip(_)
RStrip(s) == IF s # <<>> /\ IsSpace(s[Len(s)]) THEN RStrip(SubSeq(s, 1, Len(s) - 1)) ELSE s

Strip(s) == RStrip(LStrip(s))

\* y in s, for strings: y occurs in s as a contiguous run
Contains(s, y) ==
    \E i \in 1..(Len(s) + 1) : i + Len(y) - 1 <= Len(s) /\ SubSeq(s, i, i + Len(y) - 1) = y

\* any(y in href for y in lst)
AnyIn(lst, href) == \E k \in 1..Len(lst) : Contains(href, lst[k])

\* s.split(sep): the parts of s between the occurrences of the token sep
RECURSIVE SplitOn(_, _)
SplitOn(s, sep) ==
    IF \E i \in 1..Len(s) : s[i] = sep
    THEN LET i == CHOOSE i \in 1..Len(s) : s[i] = sep /\ \A k \in 1..(i - 1) : s[k] # sep
         IN  <<SubSeq(s, 1, i - 1)>> \o SplitOn(SubSeq(s, i + 1, Len(s)), sep)
    ELSE <<s>>

\* urljoin(base, href) for a base without a path: an absolute href is kept,
\* an empty one gives the base, a relative one is put under the base's host.
IsAbsolute(href) == href # <<>> /\ Head(href) \in {"S", "X"}
UrlJoin(base, href) ==
    IF href = <<>> THEN base
    ELSE IF IsAbsolute(href) THEN href
    ELSE IF Head(href) = "/" THEN <<Head(base)>> \o href
    ELSE <<Head(base), "/">> \o href

\* dict.update({key: value}) on a dict kept as the sequence of its items in
\* insertion order: an existing key keeps its place and takes the new value.
DictKeys(d) == {d[k][1] : k \in 1..Len(d)}
DictPut(d, key, value) ==
    IF key \in DictKeys(d)
    THEN [k \in 1..Len(d) |-> IF d[k][1] = key THEN <<key, value>> ELSE d[k]]
    ELSE Append(d, <<key, value>>)

RECURSIVE DictUpdate(_, _)
DictUpdate(d, e) ==
    IF e = <<>> THEN d ELSE DictUpdate(DictPut(d, e[1][1], e[1][2]), Tail(e))

(***************************************************************************)
(* Parsed markup.  A soup is the sequence of its elements in document      *)
(* order; an element has a tag, one attribute (attr, val), an href (None   *)
(* when it has none), its text, and the hrefs and texts of the anchors     *)
(* below it.                                                               *)
(***************************************************************************)
\* tag, attr and val are strings like every other: <<"a">>, <<"class">>, <<"next">>.
Elem(tag, attr, val, href, text, anchors) ==
    [tag |-> tag, attr |-> attr, val |-> val, href |-> href, text |-> text, anchors |-> anchors]
Anchor(href, text) == [href |-> href, text |-> text]
NoElem == Elem(None, None, None, None, <<>>, <<>>)     \* "no element": find() gave None

RECURSIVE SelectElems(_, _, _, _)
SelectElems(soup, tags, attr, val) ==
    IF soup = <<>> THEN <<>>
    ELSE LET e == Head(soup)
             rest == SelectElems(Tail(soup), tags, attr, val)
         IN  IF e.tag \in tags /\ e.attr = attr /\ e.val = val THEN <<e>> \o rest ELSE rest

\* soup.find_all(html_tag, {attr: val})
FindAll(soup, tags, attr, val) == SelectElems(soup, tags, attr, val)

\* soup.find(html_tag, {attr: val}): the first match, or None
Find(soup, tags, attr, val) ==
    LET found == FindAll(soup, tags, attr, val) IN IF found = <<>> THEN NoElem ELSE found[1]

\* html_tag, rest = rule.split(" >> "); attr, val = rest.split(" :: ")
\* A rule that does not unpack into exactly two parts twice raises ValueError.
ParseRule(rule) ==
    LET a == SplitOn(rule, ">>")
    IN  IF Len(a) # 2 THEN Raise
        ELSE LET b == SplitOn(a[2], "::")
             IN  IF Len(b) # 2 THEN Raise
                 ELSE [exc |-> FALSE, tag |-> a[1], attr |-> b[1], val |-> b[2]]

(***************************************************************************)
(* ForumEnginesManager._crawler_search_filter                              *)
(***************************************************************************)
\* robotparser.can_fetch("*", href): the permission oracle, kept as the set
\* of hrefs it denies.
CanFetch(robotparser, href) == href \notin robotparser

FilterCfg(whitelist, blacklist, robotparser, forum_url, force_crawl) ==
    [whitelist |-> whitelist, blacklist |-> blacklist, robotparser |-> robotparser,
     forum_url |-> forum_url, force_crawl |-> force_crawl]

\* The body of `for a_tag in a_tags` for one anchor that has an href: is
\* the link recorded?
FilterAccepts(href, cfg) ==
    IF cfg.whitelist # <<>>
    THEN IF AnyIn(cfg.whitelist, href)
         THEN IF cfg.blacklist # <<>> /\ AnyIn(cfg.blacklist, href)
              THEN FALSE
              ELSE CanFetch(cfg.robotparser, href) \/ cfg.force_crawl
         ELSE FALSE
    ELSE IF cfg.blacklist # <<>> /\ AnyIn(cfg.blacklist, href)
         THEN FALSE
         ELSE IF cfg.whitelist = <<>> \/ cfg.blacklist = <<>>
              THEN CanFetch(cfg.robotparser, href) \/ cfg.force_crawl
              ELSE FALSE

\* `for a_tag in a_tags`: a_tag['href'] of an anchor without href raises
\* KeyError, which the enclosing try of the element catches: the anchors
\* after it are not looked at.
RECURSIVE FilterAnchors(_, _, _)
FilterAnchors(a_tags, dict, cfg) ==
    IF a_tags = <<>> THEN dict
    ELSE LET a_tag == Head(a_tags)
         IN  IF a_tag.href = None THEN dict
             ELSE FilterAnchors(Tail(a_tags),
                                IF FilterAccepts(a_tag.href, cfg)
                                THEN DictPut(dict, UrlJoin(cfg.forum_url, a_tag.href), Strip(a_tag.text))
                                ELSE dict,
                                cfg)

\* `for tag_solo in to_search`.  a_tags is a local of the function: an
\* element with an empty href assigns nothing, so the loop runs over the
\* a_tags of the element before it (NameError, caught, when there was none).
RECURSIVE FilterTags(_, _, _, _)
FilterTags(to_search, a_tags, dict, cfg) ==
    IF to_search = <<>> THEN dict
    ELSE LET tag_solo == Head(to_search)
             now == IF tag_solo.href = None THEN [bound |-> TRUE, tags |-> tag_solo.anchors]
                    ELSE IF tag_solo.href # <<>>
                         THEN [bound |-> TRUE, tags |-> <<Anchor(tag_solo.href, tag_solo.text)>>]
                         ELSE a_tags
         IN  IF ~now.bound
             THEN FilterTags(Tail(to_search), now, dict, cfg)
             ELSE FilterTags(Tail(to_search), now, FilterAnchors(now.tags, dict, cfg), cfg)

CrawlerSearchFilter(to_search, cfg) ==
    FilterTags(to_search, [bound |-> FALSE, tags |-> <<>>], <<>>, cfg)

(***************************************************************************)
(* ForumEnginesManager._get_next_page_link                                 *)
(***************************************************************************)
PagTags == {<<"li">>, <<"a">>, <<"div">>}
Ret(link) == [exc |-> FALSE, link |-> link]
Truthy(link) == link \notin {None, <<>>}

\* The element one pagination rule finds, NoElem when the loop goes on to the
\* next rule: the class over li/a/div first, then "attr :: value" over the
\* same tags, then "tag >> attr :: value".
TierC(soup, pagination_class) ==
    LET r == ParseRule(pagination_class)
    IN  IF IsRaise(r) THEN NoElem
        ELSE LET found == FindAll(soup, {r.tag}, r.attr, r.val)
             IN  IF found = <<>> THEN NoElem ELSE found[1]

TierB(soup, pagination_class) ==
    LET b == SplitOn(pagination_class, "::")
    IN  IF Len(b) # 2 THEN TierC(soup, pagination_class)
        ELSE LET found == FindAll(soup, PagTags, b[1], b[2])
             IN  IF found = <<>> THEN TierC(soup, pagination_class) ELSE found[1]

NextButton(soup, pagination_class) ==
    LET first == Find(soup, PagTags, <<"class">>, pagination_class)
    IN  IF first # NoElem THEN first ELSE TierB(soup, pagination_class)

\* next_button['href'], else next_button.find('a')['href']: the second
\* raises when there is no anchor below, or the anchor has no href.
ButtonHref(next_button) ==
    IF next_button.href # None THEN Ret(next_button.href)
    ELSE IF next_button.anchors = <<>> THEN Raise
    ELSE IF next_button.anchors[1].href = None THEN Raise
    ELSE Ret(next_button.anchors[1].href)

RECURSIVE NextPageFrom(_, _, _)
NextPageFrom(url_now, soup, pagination) ==
    IF pagination = <<>> THEN Ret(None)
    ELSE LET next_button == NextButton(soup, Head(pagination))
         IN  IF next_button = NoElem THEN NextPageFrom(url_now, soup, Tail(pagination))
             ELSE LET next_page == ButtonHref(next_button)
                  IN  IF IsRaise(next_page) THEN Raise
                      ELSE IF next_page.link = url_now
                           THEN NextPageFrom(url_now, soup, Tail(pagination))
                           ELSE next_page

GetNextPageLink(url_now, soup, pagination) == NextPageFrom(url_now, soup, pagination)

(***************************************************************************)
(* The engine classes and ForumEnginesManager.check_engine_content         *)
(***************************************************************************)
Rule(tag, attr, val) == <<tag, ">>", attr, "::", val>>

Profile(threads_class, topics_class, threads_whitelist, threads_blacklist, topics_whitelist, topics_blacklist, pagination, topic_title_class, content_class) ==
    [threads_class |-> threads_class, topics_class |-> topics_class,
     threads_whitelist |-> threads_whitelist, threads_blacklist |-> threads_blacklist,
     topics_whitelist |-> topics_whitelist, topics_blacklist |-> topics_blacklist,
     pagination |-> pagination, topic_title_class |-> topic_title_class,
     content_class |-> content_class]

InvisionCrawler ==
    Profile(<<Rule("div", "class", "ipsDataItem_main")>>, <<Rule("div", "class", "ipsDataItem_main")>>,
            <<<<"forum">>>>, <<<<"topic">>>>, <<<<"topic">>>>, <<<<"page">>, <<"#comments">>>>,
            <<<<"ipsPagination_next">>>>, <<>>,
            <<<<"ipsType_normal ipsType_richText ipsPadding_bottom ipsContained">>>>)

PhpBBCrawler ==
    Profile(<<Rule("a", "class", "forumtitle"), Rule("a", "class", "forumlink")>>,
            <<Rule("a", "class", "topictitle")>>,
            <<>>, <<>>, <<>>, <<>>,
            <<<<"arrow next">>, <<"right-box right">>, <<"title", "::", "Dalej">>, <<"pag-img">>>>,
            <<<<"h2", ">>", "::">>, Rule("h2", "class", "topic-title")>>,
            <<<<"content_class">>>>)

IPBoardCrawler ==
    Profile(<<Rule("td", "class", "col_c_forum")>>, <<Rule("a", "class", "topic_title")>>,
            <<>>, <<>>, <<>>, <<>>,
            <<<<"next">>>>, <<>>, <<<<"post entry-content_class">>>>)

XenForoCrawler ==
    Profile(<<Rule("h3", "class", "node-title")>>, <<Rule("div", "class", "structItem-title")>>,
            <<>>, <<<<"prefix_id">>>>, <<<<"threads">>>>, <<<<"preview">>>>,
            <<<<"pageNav-jump pageNav-jump--next">>>>, <<>>,
            <<<<"message-body js-selectToQuote">>>>)

UnsupportedCrawler == Profile(<<>>, <<>>, <<>>, <<>>, <<>>, <<>>, <<>>, <<>>, <<>>)

KnownEngines == {"invision", "phpbb", "ipboard", "xenforo", "other"}

EngineDefaults(engine_type) ==
    CASE engine_type = "invision" -> InvisionCrawler
      [] engine_type = "phpbb" -> PhpBBCrawler
      [] engine_type = "ipboard" -> IPBoardCrawler
      [] engine_type = "xenforo" -> XenForoCrawler
      [] OTHER -> UnsupportedCrawler

\* A value of config_manager.settings: is_list says whether it is a list.
ListOf(items) == [is_list |-> TRUE, items |-> items]

\* if settings[X] and isinstance(settings[X], list): self.x.extend(settings[X])
Extend(lst, setting) ==
    IF setting.items # <<>> /\ setting.is_list THEN lst \o setting.items ELSE lst

\* The fields check_engine_content leaves on the manager; Raise when the
\* engine is none of the five (the local engine_type is then unbound at the
\* first use after the try).
CheckEngineContent(settings) ==
    IF settings.FORUM_ENGINE \notin KnownEngines THEN Raise
    ELSE LET d == EngineDefaults(settings.FORUM_ENGINE)
         IN  [exc |-> FALSE,
              threads_class |-> Extend(d.threads_class, settings.THREADS_CLASS),
              threads_whitelist |-> Extend(d.threads_whitelist, settings.THREADS_WHITELIST),
              threads_blacklist |-> Extend(d.threads_blacklist, settings.THREADS_BLACKLIST),
              topics_class |-> Extend(d.topics_class, settings.TOPICS_CLASS),
              topics_whitelist |-> Extend(d.topics_whitelist, settings.TOPICS_WHITELIST),
              topics_blacklist |-> Extend(d.topics_blacklist, settings.TOPICS_BLACKLIST),
              pagination |-> Extend(d.pagination, settings.PAGINATION),
              topic_title_class |-> d.topic_title_class,
              content_class |-> Extend(d.content_class, settings.CONTENT_CLASS)]

Settings(engine, tc, tw, tb, pc, pw, pb, pg, tt, cc) ==
    [FORUM_ENGINE |-> engine, THREADS_CLASS |-> tc, THREADS_WHITELIST |-> tw,
     THREADS_BLACKLIST |-> tb, TOPICS_CLASS |-> pc, TOPICS_WHITELIST |-> pw,
     TOPICS_BLACKLIST |-> pb, PAGINATION |-> pg, TOPIC_TITLE_CLASS |-> tt, CONTENT_CLASS |-> cc]

NoOverrides(engine) ==
    Settings(engine, ListOf(<<>>), ListOf(<<>>), ListOf(<<>>), ListOf(<<>>), ListOf(<<>>),
             ListOf(<<>>), ListOf(<<>>), ListOf(<<>>), ListOf(<<>>))

(***************************************************************************)
(* ForumEnginesManager._get_forum_threads_extract and                      *)
(* _get_thread_topics_extract.  cfg holds forum_url, robot_parser and      *)
(* force_crawl of the manager.                                             *)
(***************************************************************************)
ThreadsCfg(profile, cfg) ==
    FilterCfg(profile.threads_whitelist, profile.threads_blacklist, cfg.robotparser,
              cfg.forum_url, cfg.force_crawl)
TopicsCfg(profile, cfg) ==
    FilterCfg(profile.topics_whitelist, profile.topics_blacklist, cfg.robotparser,
              cfg.forum_url, cfg.force_crawl)

\* for thread_class in self.threads_class: the links of every rule are pooled
RECURSIVE ThreadsExtractFrom(_, _, _, _, _)
ThreadsExtractFrom(soup, threads_class, forum_threads, profile, cfg) ==
    IF threads_class = <<>> THEN [exc |-> FALSE, dict |-> forum_threads]
    ELSE LET r == ParseRule(Head(threads_class))
         IN  IF IsRaise(r) THEN Raise
             ELSE ThreadsExtractFrom(soup, Tail(threads_class),
                      DictUpdate(forum_threads,
                                 CrawlerSearchFilter(FindAll(soup, {r.tag}, r.attr, r.val),
                                                     ThreadsCfg(profile, cfg))),
                      profile, cfg)

GetForumThreadsExtract(soup, profile, cfg) ==
    ThreadsExtractFrom(soup, profile.threads_class, <<>>, profile, cfg)

\* for topic_class in self.topics_class: a rule that finds no element makes
\* the page's thread links one more entry of self.forum_threads (appended
\* lists them, in order); a rule that finds some has them filtered.
RECURSIVE TopicsExtractFrom(_, _, _, _, _, _)
TopicsExtractFrom(soup, topics_class, thread_topics, appended, profile, cfg) ==
    IF topics_class = <<>>
    THEN [exc |-> FALSE, topics |-> thread_topics, appended |-> appended]
    ELSE LET r == ParseRule(Head(topics_class))
         IN  IF IsRaise(r) THEN Raise
             ELSE LET topics == FindAll(soup, {r.tag}, r.attr, r.val)
                  IN  IF Len(topics) = 0
                      THEN LET forum_threads == GetForumThreadsExtract(soup, profile, cfg)
                           IN  IF IsRaise(forum_threads) THEN Raise
                               ELSE TopicsExtractFrom(soup, Tail(topics_class), thread_topics,
                                        Append(appended, forum_threads.dict), profile, cfg)
                      ELSE TopicsExtractFrom(soup, Tail(topics_class),
                               DictUpdate(thread_topics,
                                          CrawlerSearchFilter(topics, TopicsCfg(profile, cfg))),
                               appended, profile, cfg)

GetThreadTopicsExtract(soup, profile, cfg) ==
    TopicsExtractFrom(soup, profile.topics_class, <<>>, <<>>, profile, cfg)

(***************************************************************************)
(* Extraction: Scraper._get_item_text and Scraper._process_item, the work  *)
(* a pool worker does for one topic URL.  web maps a URL to the response   *)
(* session.get gives for it; rules are the lists _initialize_worker stored *)
(* in the worker (content_class, topic_title_class, pagination).           *)
(***************************************************************************)
Response(status, size, page) == [status |-> status, size |-> size, soup |-> page]

\* session.get(url): status "raise" when the request itself fails, "notok"
\* for an error status; a URL the site does not serve is a 404.
WebGet(web, url) == IF url \in DOMAIN web THEN web[url] ELSE Response("notok", 0, <<>>)

\* for content_class in forum_content_class: ... comment_blocks = soup.find_all(...)
\* cb is the local comment_blocks: whether it is bound, and its value.  exc
\* when a rule string does not unpack.
RECURSIVE ContentLoop(_, _, _)
ContentLoop(page, content_class, cb) ==
    IF content_class = <<>> THEN [exc |-> FALSE, bound |-> cb.bound, blocks |-> cb.blocks]
    ELSE LET r == ParseRule(Head(content_class))
         IN  IF IsRaise(r) THEN [exc |-> TRUE, bound |-> cb.bound, blocks |-> cb.blocks]
             ELSE LET found == FindAll(page, {r.tag}, r.attr, r.val)
                  IN  IF found # <<>> THEN [exc |-> FALSE, bound |-> TRUE, blocks |-> found]
                      ELSE ContentLoop(page, Tail(content_class), [bound |-> TRUE, blocks |-> <<>>])

\* for comment in comment_blocks: text += comment.text.strip() + text_separator
RECURSIVE TextOf(_)
TextOf(blocks) ==
    IF blocks = <<>> THEN <<>> ELSE Strip(Head(blocks).text) \o <<"n">> \o TextOf(Tail(blocks))

\* The topic title of the first page: the stripped text of the first element
\* a title rule finds, "" when none does; when a rule string does not unpack
\* the local keeps what it had, "" or the None of the last find.
RECURSIVE TitleLoop(_, _, _)
TitleLoop(page, topic_title_class, topic_title) ==
    IF topic_title_class = <<>> THEN <<>>
    ELSE LET r == ParseRule(Head(topic_title_class))
         IN  IF IsRaise(r) THEN topic_title
             ELSE LET found == Find(page, {r.tag}, r.attr, r.val)
                  IN  IF found # NoElem THEN Strip(found.text)
                      ELSE TitleLoop(page, Tail(topic_title_class), None)

\* The while loop over the next pages of the topic, one test and one pass of
\* the body at a time.  first: next_page_link is not bound yet, so the
\* handler that logs it raises in its turn.
RECURSIVE ItemPages(_, _, _, _, _, _, _, _)
NextPageText(next_url, next_page_response, c, text, web, rules, dataset_url) ==
    IF next_page_response.status = "raise" \/ c.exc \/ ~c.bound THEN [exc |-> FALSE, text |-> text]
    ELSE ItemPages(next_url, next_page_response.soup, [bound |-> TRUE, blocks |-> c.blocks],
                   text \o TextOf(c.blocks), FALSE, web, rules, dataset_url)

NextPageGet(next_page_link, next_page_response, cb, text, web, rules, dataset_url) ==
    NextPageText(UrlJoin(dataset_url, next_page_link), next_page_response,
                 ContentLoop(next_page_response.soup, rules.content_class, cb),
                 text, web, rules, dataset_url)

ItemPagesBody(next_page_link, cb, text, first, web, rules, dataset_url) ==
    IF IsRaise(next_page_link) THEN [exc |-> first, text |-> text]
    ELSE IF ~Truthy(next_page_link.link) THEN [exc |-> FALSE, text |-> text]
    ELSE IF ~Contains(next_page_link.link, dataset_url) THEN [exc |-> FALSE, text |-> text]
    ELSE NextPageGet(next_page_link.link, WebGet(web, next_page_link.link), cb, text,
                     web, rules, dataset_url)

ItemPages(url, page, cb, text, first, web, rules, dataset_url) ==
    ItemPagesBody(GetNextPageLink(url, page, rules.pagination), cb, text, first,
                  web, rules, dataset_url)

\* What _get_item_text gives: exc when it raises; otherwise is_tuple says
\* whether it returned (text, topic_title) or, for an oversized page, text
\* alone.
Returned(is_tuple, text, topic_title) ==
    [exc |-> FALSE, is_tuple |-> is_tuple, text |-> text, topic_title |-> topic_title]
Raised == [exc |-> TRUE, is_tuple |-> FALSE, text |-> <<>>, topic_title |-> <<>>]

ItemTextOf(pages, topic_title) ==
    IF pages.exc THEN Raised ELSE Returned(TRUE, pages.text, topic_title)

\* The first page, comment_blocks found or left unbound by the rule loop
FirstPageText(url, response, c, web, rules, dataset_url) ==
    IF ~c.bound THEN Raised
    ELSE ItemTextOf(ItemPages(url, response.soup, [bound |-> TRUE, blocks |-> c.blocks],
                              TextOf(c.blocks), TRUE, web, rules, dataset_url),
                    TitleLoop(response.soup, rules.topic_title_class, <<>>))

ResponseText(url, response, web, rules, dataset_url) ==
    IF response.status # "ok" THEN Returned(TRUE, <<>>, <<>>)
    ELSE IF response.size > SizeCeiling THEN Returned(FALSE, <<>>, <<>>)
    ELSE FirstPageText(url, response,
                       ContentLoop(response.soup, rules.content_class,
                                   [bound |-> FALSE, blocks |-> <<>>]),
                       web, rules, dataset_url)

GetItemText(url, web, rules, dataset_url) ==
    ResponseText(url, WebGet(web, url), web, rules, dataset_url)

\* The requests and the waits of _get_item_text, in the order it makes them:
\* "get" for a session.get, "sleep" for a time.sleep(time_sleep).  The wait
\* after the first page stands after the title lookup, so only a page that
\* was read gets it; the wait after a next page is the last statement of
\* the loop body.
RECURSIVE PagesEvents(_, _, _, _, _)
NextPageEvents(next_url, next_page_response, c, web, rules, dataset_url) ==
    IF next_page_response.status = "raise" \/ c.exc \/ ~c.bound THEN <<"get">>
    ELSE <<"get", "sleep">> \o PagesEvents(next_url, next_page_response.soup, web, rules, dataset_url)

PagesEventsBody(next_page_link, web, rules, dataset_url) ==
    IF IsRaise(next_page_link) THEN <<>>
    ELSE IF ~Truthy(next_page_link.link) THEN <<>>
    ELSE IF ~Contains(next_page_link.link, dataset_url) THEN <<>>
    ELSE NextPageEvents(UrlJoin(dataset_url, next_page_link.link),
                        WebGet(web, next_page_link.link),
                        ContentLoop(WebGet(web, next_page_link.link).soup, rules.content_class,
                                    [bound |-> TRUE, blocks |-> <<>>]),
                        web, rules, dataset_url)

PagesEvents(url, page, web, rules, dataset_url) ==
    PagesEventsBody(GetNextPageLink(url, page, rules.pagination), web, rules, dataset_url)

ResponseEvents(url, response, c, web, rules, dataset_url) ==
    IF response.status # "ok" THEN <<"get">>
    ELSE IF response.size > SizeCeiling THEN <<"get">>
    ELSE IF ~c.bound THEN <<"get">>
    ELSE <<"get", "sleep">> \o PagesEvents(url, response.soup, web, rules, dataset_url)

GetItemTextEvents(url, web, rules, dataset_url) ==
    ResponseEvents(url, WebGet(web, url),
                   ContentLoop(WebGet(web, url).soup, rules.content_class,
                               [bound |-> FALSE, blocks |-> <<>>]),
                   web, rules, dataset_url)

\* url in all_visited_urls, all_visited_urls being the pandas Series
\* visited_topics['Topic_URLs']: `in` on a Series tests its index labels
\* 0..n-1, not its values.
SeriesLabels(series) == {<<"0", "1", "2", "3", "4", "5", "6", "7", "8", "9">>[i] : i \in 1..Len(series)}
SeriesContains(series, key) == key \in {<<l>> : l \in SeriesLabels(series)}

Meta(url, topic_title, skip, characters) ==
    [url |-> url, topic_title |-> topic_title, skip |-> skip, characters |-> characters]

\* The except clause and the else branch of _process_item build meta from
\* the local topic_title, which only a completed
\* `txt, topic_title = Scraper._get_item_text(url)` binds.
HandlerMeta(url, topic_title_bound) ==
    IF topic_title_bound THEN [exc |-> FALSE, txt |-> <<>>, meta |-> Meta(url, <<>>, "error", 0)]
    ELSE [exc |-> TRUE, txt |-> <<>>, meta |-> Meta(url, <<>>, "raised", 0)]

\* _process_item(url): (txt_strip, meta), or exc when it raises.
ItemResult(url, r) ==
    IF r.exc \/ ~r.is_tuple THEN HandlerMeta(url, FALSE)
    ELSE IF r.text # <<>>
         THEN [exc |-> FALSE, txt |-> Strip(r.text),
               meta |-> Meta(url, r.topic_title, "-", Len(Strip(r.text)))]
         ELSE [exc |-> FALSE, txt |-> <<>>, meta |-> Meta(url, r.topic_title, "error", 0)]

ProcessItem(url, all_visited_urls, web, rules, dataset_url) ==
    IF SeriesContains(all_visited_urls, url) THEN HandlerMeta(url, FALSE)
    ELSE ItemResult(url, GetItemText(url, web, rules, dataset_url))

(***************************************************************************)
(* State.                                                                  *)
(***************************************************************************)
VARIABLES
    settings,       \* config_manager.settings: the engine id and the rule overrides
    manager,        \* the rule lists of ForumEnginesManager; state "new" before check_engine_content
    filter_call,    \* the arguments of a call of _crawler_search_filter
    filter_ret,     \* and the dict it returned
    pag_call,       \* the arguments of a call of _get_next_page_link
    pag_ret,        \* and what it returned
    site,           \* the forum being crawled: listing URL -> the soup of its page
    forum_threads,  \* self.forum_threads: the growing list of {thread URL: name} dicts
    threads_topics, \* self.threads_topics: the Topic Map
    crawl_pc,       \* where crawl_forum is: "start", "loop", "paging", "done", "failed"
    crawl_pos,      \* <<i, j>>: the dict of forum_threads and the item in it being crawled
    crawl_steps,    \* the pages crawl_forum has fetched so far
    crawl_ret,      \* what crawl_forum returned: "True" or "False" ("none" before)
    crawl_calls,    \* the calls of crawl_forum made on the manager so far
    chain,          \* _get_thread_topics: the URLs it has fetched for the thread, in order
    url_now,        \* _get_thread_topics: the page whose next link is looked for
    soup,           \* _get_thread_topics: its parsed content
    thread_topics,  \* _get_thread_topics: the topics found for the thread so far
    web,            \* the topic pages: URL -> the response session.get gives
    rules,          \* the rule lists _initialize_worker stores in every worker
    topic_map,      \* the topic URLs discovery handed off
    visited_topics, \* crawler.visited_topics: the Visited Records loaded at startup
    topics_minus_visited, \* crawler.get_urls_to_scrap(): the URLs of this run, in order
    scrap_pc,       \* where _scrap_txt_mp is: "start", "loop", "final", "returned"
    run,            \* 1 for the first run of extraction, 2 for the re-run
    next_task,      \* pool.imap: the index of the next URL to hand to a worker
    workers,        \* the indices of the URLs the pool's workers are processing
    results,        \* per URL, what _process_item gave for it once a worker finished
    all_visited_urls, \* the global _initialize_worker set in every worker of the pool
    total,          \* results the driving loop has handled
    added,          \* documents added in this run
    skipped,        \* results skipped in this run
    total_docs,     \* the count _scrap_txt_mp returns
    visited_urls_dataframe, \* the batch of Visited Records not persisted yet
    visited_file,   \* the visited-state store on disk
    archive,        \* the Archive: documents added (data) and documents committed
    docs_at_start,  \* Archive entries when the current run started
    item_call,      \* the arguments and worker globals of a call of _process_item
    item_ret,       \* and what it returned
    cfg_args,       \* the arguments of ConfigManager(...) and what robots.txt answers
    cfg_pc,         \* where ConfigManager.__init__ is: "new", "checked", "ready", "aborted"
    cfg_exit,       \* the exit status of the process once it has ended (NoExit before)
    cfg_net         \* the network requests configuration has made

mergeVars == <<settings, manager>>
filterVars == <<filter_call, filter_ret>>
pagVars == <<pag_call, pag_ret>>
crawlVars == <<site, forum_threads, threads_topics, crawl_pc, crawl_pos, crawl_steps, crawl_ret,
               crawl_calls, chain, url_now, soup, thread_topics>>
poolVars == <<next_task, workers, results, all_visited_urls>>
loopVars == <<total, added, skipped, total_docs, visited_urls_dataframe>>
storeVars == <<visited_file, archive>>
runVars == <<web, rules, topic_map, visited_topics, topics_minus_visited, run, docs_at_start>>
scrapVars == <<scrap_pc, poolVars, loopVars, storeVars, runVars>>
itemVars == <<item_call, item_ret>>
configVars == <<cfg_args, cfg_pc, cfg_exit, cfg_net>>
vars == <<mergeVars, filterVars, pagVars, crawlVars, scrapVars, itemVars, configVars>>

Idle == [state |-> "idle"]
NewManager == [state |-> "new"]

MergeIdle == settings = Idle /\ manager = Idle
FilterIdle == filter_call = Idle /\ filter_ret = Idle
PagIdle == pag_call = Idle /\ pag_ret = Idle
CrawlIdle ==
    /\ site = Idle /\ forum_threads = <<>> /\ threads_topics = <<>> /\ crawl_pc = "idle"
    /\ crawl_pos = <<0, 0>> /\ crawl_steps = 0 /\ url_now = None /\ soup = <<>>
    /\ thread_topics = <<>> /\ crawl_ret = "none" /\ crawl_calls = 0 /\ chain = <<>>
NoExit == -1
ItemIdle == item_call = Idle /\ item_ret = Idle
ConfigIdle == cfg_args = Idle /\ cfg_pc = "idle" /\ cfg_exit = NoExit /\ cfg_net = 0
EmptyArchive == [data |-> <<>>, committed |-> <<>>]
ScrapIdle ==
    /\ web = Idle /\ rules = Idle /\ topic_map = <<>> /\ visited_topics = <<>>
    /\ topics_minus_visited = <<>> /\ scrap_pc = "idle" /\ run = 0
    /\ next_task = 0 /\ workers = {} /\ results = <<>> /\ all_visited_urls = <<>>
    /\ total = 0 /\ added = 0 /\ skipped = 0 /\ total_docs = 0
    /\ visited_urls_dataframe = <<>> /\ visited_file = <<>> /\ archive = EmptyArchive
    /\ docs_at_start = 0

(***************************************************************************)
(* Rule merge: ForumEnginesManager.__init__ on a configuration.            *)
(***************************************************************************)
\* An override is absent or two rules, so that order shows.
OverrideLists(a, b) == {ListOf(<<>>), ListOf(<<a, b>>)}
UserRule1 == Rule("li", "class", "user1")
UserRule2 == Rule("li", "class", "user2")

\* forum_engine is any string: the five engine ids, or one that is none of them
EngineIds == KnownEngines \cup {"vbulletin"}

SettingsChoices ==
    {Settings(e, tc, tw, tb, pc, pw, pb, pg, tt, cc) :
        e \in EngineIds,
        tc \in OverrideLists(UserRule1, UserRule2), tw \in OverrideLists(<<"w1">>, <<"w2">>),
        tb \in OverrideLists(<<"b1">>, <<"b2">>), pc \in OverrideLists(UserRule2, UserRule1),
        pw \in OverrideLists(<<"w3">>, <<"w4">>), pb \in OverrideLists(<<"b3">>, <<"b4">>),
        pg \in OverrideLists(<<"user next">>, <<"rel", "::", "next">>),
        tt \in OverrideLists(Rule("h1", "class", "title"), Rule("h3", "class", "title")),
        cc \in OverrideLists(Rule("div", "class", "post"), Rule("div", "class", "content"))}

InitMerge ==
    /\ settings \in SettingsChoices
    /\ manager = NewManager
    /\ FilterIdle /\ PagIdle /\ CrawlIdle /\ ScrapIdle /\ ItemIdle /\ ConfigIdle

\* ForumEnginesManager.__init__ calls check_engine_content
CheckEngine ==
    /\ manager = NewManager
    /\ LET r == CheckEngineContent(settings)
       IN  manager' = IF IsRaise(r) THEN [state |-> "raised"]
                      ELSE [state |-> "ready", profile |-> r]
    /\ UNCHANGED <<settings, filterVars, pagVars, itemVars, configVars, crawlVars, scrapVars>>

NextMerge == CheckEngine
SpecMerge == InitMerge /\ [][NextMerge]_vars

\* C10: for every known engine and every override set, each of the nine rule
\* lists of the resolved profile is the engine's default list followed by
\* the override list of its category, in order.
RuleMergeAllCategories ==
    manager.state = "ready" =>
        LET d == EngineDefaults(settings.FORUM_ENGINE)
            p == manager.profile
        IN  /\ p.threads_class = d.threads_class \o settings.THREADS_CLASS.items
            /\ p.topics_class = d.topics_class \o settings.TOPICS_CLASS.items
            /\ p.threads_whitelist = d.threads_whitelist \o settings.THREADS_WHITELIST.items
            /\ p.threads_blacklist = d.threads_blacklist \o settings.THREADS_BLACKLIST.items
            /\ p.topics_whitelist = d.topics_whitelist \o settings.TOPICS_WHITELIST.items
            /\ p.topics_blacklist = d.topics_blacklist \o settings.TOPICS_BLACKLIST.items
            /\ p.pagination = d.pagination \o settings.PAGINATION.items
            /\ p.topic_title_class = d.topic_title_class \o settings.TOPIC_TITLE_CLASS.items
            /\ p.content_class = d.content_class \o settings.CONTENT_CLASS.items

\* C11: an engine id that is none of the five does not make
\* check_engine_content fail: the manager is ready, with the rule lists the
\* 'other' engine gives for the same overrides (empty lists, then the
\* overrides).
UnknownEngineGivesEmptyProfile ==
    (manager # NewManager /\ settings.FORUM_ENGINE \notin KnownEngines) =>
        /\ manager.state = "ready"
        /\ manager.profile = CheckEngineContent([settings EXCEPT !.FORUM_ENGINE = "other"])

(***************************************************************************)
(* Link filter: calls of _crawler_search_filter on bounded inputs.         *)
(***************************************************************************)
ForumUrl == <<"S">>
Topic1 == <<"/", "topic", "1">>
Topic1Page == <<"/", "topic", "1", "page">>
Forum1 == <<"/", "forum", "1">>

FilterHrefs == {Topic1, Topic1Page, Forum1}

\* The elements a rule can match: an anchor (with an href, an empty href or
\* none), or a container with one or two anchors below it.
FilterElems ==
    {Elem(<<"a">>, <<"class">>, <<"c">>, h, <<"x">>, <<>>) : h \in FilterHrefs \cup {<<>>, None}}
    \cup {Elem(<<"div">>, <<"class">>, <<"c">>, None, <<"x">>, <<Anchor(h, <<"_", "x">>)>>) :
            h \in FilterHrefs \cup {None}}
    \cup {Elem(<<"div">>, <<"class">>, <<"c">>, None, <<"x">>,
               <<Anchor(h1, <<"x">>), Anchor(h2, <<"x", "_">>)>>) :
            h1 \in FilterHrefs \cup {None}, h2 \in FilterHrefs}

FilterSearches ==
    {<<>>} \cup {<<e>> : e \in FilterElems} \cup {<<e1, e2>> : e1 \in FilterElems, e2 \in FilterElems}

InitFilter ==
    /\ filter_call \in
         [state : {"called"},
          to_search : FilterSearches,
          whitelist : {<<>>, <<<<"topic">>>>},
          blacklist : {<<>>, <<<<"page">>>>},
          robotparser : {{}, {Topic1}},
          forum_url : {ForumUrl},
          force_crawl : BOOLEAN]
    /\ filter_ret = Idle
    /\ MergeIdle /\ PagIdle /\ CrawlIdle /\ ScrapIdle /\ ItemIdle /\ ConfigIdle

CallFilter ==
    /\ filter_ret = Idle
    /\ filter_ret' = [state |-> "returned",
                      dict |-> CrawlerSearchFilter(filter_call.to_search,
                                   FilterCfg(filter_call.whitelist, filter_call.blacklist,
                                             filter_call.robotparser, filter_call.forum_url,
                                             filter_call.force_crawl))]
    /\ UNCHANGED <<filter_call, mergeVars, pagVars, crawlVars, scrapVars, itemVars, configVars>>

NextFilter == CallFilter
SpecFilter == InitFilter /\ [][NextFilter]_vars

\* The hrefs of the candidate anchors of a call: the matched anchors and the
\* anchors below the matched containers that carry a non-empty href.
ElemHrefs(e) ==
    IF e.href # None THEN {e.href} \ {<<>>}
    ELSE {e.anchors[k].href : k \in 1..Len(e.anchors)} \ {None, <<>>}
CandidateHrefs(to_search) == UNION {ElemHrefs(to_search[k]) : k \in 1..Len(to_search)}

\* C8: a candidate href u is recorded iff (allow is empty or u contains an
\* allow substring) and u contains no deny substring and (the permission
\* oracle allows u or force is set).
FilterRecordsIffAllowed ==
    filter_ret.state = "returned" =>
        \A u \in CandidateHrefs(filter_call.to_search) :
            (UrlJoin(filter_call.forum_url, u) \in DictKeys(filter_ret.dict))
            <=> /\ (filter_call.whitelist = <<>> \/ AnyIn(filter_call.whitelist, u))
                /\ ~AnyIn(filter_call.blacklist, u)
                /\ (CanFetch(filter_call.robotparser, u) \/ filter_call.force_crawl)

(***************************************************************************)
(* Pagination resolver: calls of _get_next_page_link on bounded inputs.    *)
(***************************************************************************)
PageNow == <<"S", "/", "f1">>
PagHrefs == {PageNow, <<"/", "f1">>, <<"S", "/", "f1", "p2">>, <<"/", "f1", "p3">>}

PagElems ==
    {Elem(<<"a">>, <<"class">>, <<"next">>, h, <<"x">>, <<>>) : h \in PagHrefs}
    \cup {Elem(<<"li">>, <<"class">>, <<"next">>, None, <<"x">>, <<Anchor(h, <<"x">>)>>) :
            h \in {<<"/", "f1", "p3">>, None}}
    \cup {Elem(<<"li">>, <<"class">>, <<"next">>, None, <<"x">>, <<>>),
          Elem(<<"a">>, <<"title">>, <<"Dalej">>, <<"S", "/", "f1", "p2">>, <<"x">>, <<>>),
          Elem(<<"a">>, <<"title">>, <<"Dalej">>, <<"/", "f1">>, <<"x">>, <<>>),
          Elem(<<"span">>, <<"id">>, <<"nx">>, <<"/", "f1", "p3">>, <<"x">>, <<>>)}

PagSoups == {<<>>} \cup {<<e>> : e \in PagElems} \cup {<<e1, e2>> : e1 \in PagElems, e2 \in PagElems}

PagRules ==
    {<<>>, <<<<"next">>>>, <<<<"title", "::", "Dalej">>>>, <<Rule("span", "id", "nx")>>,
     <<<<"next">>, <<"title", "::", "Dalej">>>>, <<<<"title", "::", "Dalej">>, Rule("span", "id", "nx")>>}

InitPagination ==
    /\ pag_call \in [state : {"called"}, url_now : {PageNow}, soup : PagSoups,
                     pagination : PagRules, forum_url : {ForumUrl}]
    /\ pag_ret = Idle
    /\ MergeIdle /\ FilterIdle /\ CrawlIdle /\ ScrapIdle /\ ItemIdle /\ ConfigIdle

CallNextPageLink ==
    /\ pag_ret = Idle
    /\ LET r == GetNextPageLink(pag_call.url_now, pag_call.soup, pag_call.pagination)
       IN  pag_ret' = IF IsRaise(r) THEN [state |-> "raised"]
                      ELSE [state |-> "returned", link |-> r.link]
    /\ UNCHANGED <<pag_call, mergeVars, filterVars, crawlVars, scrapVars, itemVars, configVars>>

NextPagination == CallNextPageLink
SpecPagination == InitPagination /\ [][NextPagination]_vars

\* C9: a next-page link the resolver returns never resolves (urljoin against
\* the forum URL, as its callers do) to the URL of the page it was found on.
NextLinkNeverCurrentPage ==
    (pag_ret.state = "returned" /\ Truthy(pag_ret.link)) =>
        UrlJoin(pag_call.forum_url, pag_ret.link) # pag_call.url_now

\* What a pagination rule matches by its form: a bare value is the class
\* over li/a/div, "attr :: value" that attribute over the same tags,
\* "tag >> attr :: value" that attribute on the tag.  The link of the match
\* is its href, or that of the first anchor below it; None when there is no
\* match or no href.
RuleForm(rule) ==
    IF \E k \in 1..Len(rule) : rule[k] = ">>" THEN "tag"
    ELSE IF \E k \in 1..Len(rule) : rule[k] = "::" THEN "attr"
    ELSE "class"
RuleMatches(e, rule) ==
    CASE RuleForm(rule) = "class" -> e.tag \in PagTags /\ e.attr = <<"class">> /\ e.val = rule
      [] RuleForm(rule) = "attr" ->
            e.tag \in PagTags /\ rule = e.attr \o <<"::">> \o e.val
      [] OTHER -> rule = e.tag \o <<">>">> \o e.attr \o <<"::">> \o e.val
RuleLink(page, rule) ==
    IF \A k \in 1..Len(page) : ~RuleMatches(page[k], rule) THEN None
    ELSE LET e == page[CHOOSE k \in 1..Len(page) :
                         RuleMatches(page[k], rule) /\ \A j \in 1..(k - 1) : ~RuleMatches(page[j], rule)]
         IN  IF e.href # None THEN e.href
             ELSE IF e.anchors = <<>> THEN None
             ELSE e.anchors[1].href
RECURSIVE FirstRuleLink(_, _, _)
FirstRuleLink(url, page, pagination) ==
    IF pagination = <<>> THEN None
    ELSE IF RuleLink(page, Head(pagination)) \notin {None, url} THEN RuleLink(page, Head(pagination))
    ELSE FirstRuleLink(url, page, Tail(pagination))

\* C30: the resolver returns the link of the first pagination rule, in
\* declaration order, whose match has a link other than the current URL, and
\* "no next page" exactly when no rule has one; it always returns.
ResolverReturnsFirstRuleLink ==
    pag_ret # Idle =>
        /\ pag_ret.state = "returned"
        /\ pag_ret.link = FirstRuleLink(pag_call.url_now, pag_call.soup, pag_call.pagination)

\* C31: _get_next_page_link never fails: a rule whose match is not an anchor
\* and has no anchor with an href below it counts as no match, so every call
\* of the resolver returns a link or "no next page".
ResolverNeverFails == pag_ret # Idle => pag_ret.state # "raised"

(***************************************************************************)
(* Discovery: ForumEnginesManager.crawl_forum on a phpBB forum.            *)
(*                                                                         *)
(* The forum is a set of listing pages 0..MaxPage, 0 the root.  A page     *)
(* links to sub-forums (thread links), may list a topic of its own and may *)
(* have a next page; every link goes to a page of a higher number, so the  *)
(* link graph is finite and acyclic.  The root has no next page: it is     *)
(* read by _get_forum_threads, which looks for thread links only.          *)
(***************************************************************************)
Pages == 0..MaxPage
Digit(p) == <<"0", "1", "2", "3", "4", "5", "6", "7", "8", "9">>[p + 1]
PageUrl(p) == IF p = 0 THEN ForumUrl ELSE <<"S", "/", "f", Digit(p)>>
PageHref(p) == <<"/", "f", Digit(p)>>
TopicHref(p) == <<"/", "t", Digit(p)>>
TopicUrl(p) == <<"S", "/", "t", Digit(p)>>

RECURSIVE ThreadAnchors(_, _)
ThreadAnchors(sub, q) ==
    IF q > MaxPage THEN <<>>
    ELSE (IF q \in sub
          THEN <<Elem(<<"a">>, <<"class">>, <<"forumtitle">>, PageHref(q), <<"F", Digit(q)>>, <<>>)>>
          ELSE <<>>) \o ThreadAnchors(sub, q + 1)

PageSoup(p, sub, topic, next) ==
    ThreadAnchors(sub, 1)
    \o (IF topic
        THEN <<Elem(<<"a">>, <<"class">>, <<"topictitle">>, TopicHref(p), <<"T", Digit(p), "_">>, <<>>)>>
        ELSE <<>>)
    \o (IF next # 0
        THEN <<Elem(<<"a">>, <<"class">>, <<"arrow next">>, PageHref(next), <<"x">>, <<>>)>>
        ELSE <<>>)

\* The forum whose page p links to the sub-forums sub[p], lists a topic of
\* its own when topic[p], and has next[p] as its next page (0: none)
AcyclicSite(sub, topic, next) ==
    [u \in {PageUrl(p) : p \in Pages} |->
        LET p == CHOOSE p \in Pages : PageUrl(p) = u
        IN  PageSoup(p, sub[p], topic[p], next[p])]

\* session.get(url) and BeautifulSoup(response.content): a URL the forum
\* does not serve gives a page without any of the elements looked for.
Fetch(url) == IF url \in DOMAIN site THEN site[url] ELSE <<>>

\* The manager's forum_url, robot_parser and force_crawl: robots.txt denies
\* one topic, which no page of the acyclic forums above links to.
DeniedHref == <<"/", "t", "x">>
CrawlCfg == [forum_url |-> ForumUrl, robotparser |-> {DeniedHref}, force_crawl |-> FALSE]

\* The position after the item at pos in `for x in self.forum_threads: for
\* ... in x.items()`, and the item the loops take next from pos on (<<0, 0>>
\* when the list is exhausted).
\* (a traversal that does not move on to the next item, for contrast)
AdvanceStuck(pos) == pos

Advance(pos) == <<pos[1], pos[2] + 1>>

RECURSIVE NextItem(_, _, _)
NextItem(list, i, j) ==
    IF i > Len(list) THEN <<0, 0>>
    ELSE IF j <= Len(list[i]) THEN <<i, j>>
    ELSE NextItem(list, i + 1, 1)

CrawlItem == NextItem(forum_threads, crawl_pos[1], crawl_pos[2])

RECURSIVE Flatten(_)
Flatten(list) == IF list = <<>> THEN <<>> ELSE DictUpdate(Flatten(SubSeq(list, 1, Len(list) - 1)), list[Len(list)])

InitCrawl ==
    /\ settings = NoOverrides("phpbb")
    /\ manager = [state |-> "ready", profile |-> CheckEngineContent(settings)]
    /\ \E sub \in {f \in [Pages -> SUBSET Pages] : \A p \in Pages : \A q \in f[p] : q > p} :
       \E topic \in [Pages -> BOOLEAN] :
       \E next \in {f \in [Pages -> Pages] : f[0] = 0 /\ \A p \in Pages : f[p] = 0 \/ f[p] > p} :
           site = AcyclicSite(sub, topic, next)
    /\ forum_threads = <<>> /\ threads_topics = <<>>
    /\ crawl_pc = "start" /\ crawl_pos = <<0, 0>> /\ crawl_steps = 0 /\ crawl_ret = "none"
    /\ crawl_calls = 0 /\ chain = <<>>
    /\ url_now = None /\ soup = <<>> /\ thread_topics = <<>>
    /\ FilterIdle /\ PagIdle /\ ScrapIdle /\ ItemIdle /\ ConfigIdle

\* crawl_forum, up to the loops: the thread links of the root page
CrawlStart ==
    /\ crawl_pc = "start"
    /\ LET r == GetForumThreadsExtract(Fetch(CrawlCfg.forum_url), manager.profile, CrawlCfg)
       IN  IF IsRaise(r)
           THEN crawl_pc' = "failed" /\ crawl_ret' = "False" /\ UNCHANGED <<forum_threads, crawl_pos>>
           ELSE /\ crawl_pc' = "loop" /\ forum_threads' = <<r.dict>> /\ crawl_pos' = <<1, 1>>
                /\ UNCHANGED crawl_ret
    /\ crawl_steps' = crawl_steps + 1
    /\ crawl_calls' = crawl_calls + 1
    /\ UNCHANGED <<site, threads_topics, chain, url_now, soup, thread_topics, mergeVars, filterVars, pagVars, itemVars, configVars, scrapVars>>

\* _get_thread_topics for the next thread, up to its while loop
CrawlThread ==
    /\ crawl_pc = "loop"
    /\ CrawlItem # <<0, 0>>
    /\ LET thread_url == forum_threads[CrawlItem[1]][CrawlItem[2]][1]
           page == Fetch(thread_url)
           r == GetThreadTopicsExtract(page, manager.profile, CrawlCfg)
       IN  IF IsRaise(r)
           THEN /\ crawl_pc' = "failed" /\ crawl_ret' = "False"
                /\ UNCHANGED <<forum_threads, crawl_pos, chain, url_now, soup, thread_topics>>
           ELSE /\ crawl_pc' = "paging"
                /\ chain' = <<thread_url>>
                /\ UNCHANGED crawl_ret
                /\ crawl_pos' = CrawlItem
                /\ forum_threads' = forum_threads \o r.appended
                /\ url_now' = thread_url
                /\ soup' = page
                /\ thread_topics' = r.topics
    /\ crawl_steps' = crawl_steps + 1
    /\ UNCHANGED <<site, threads_topics, crawl_calls, mergeVars, filterVars, pagVars, itemVars, configVars, scrapVars>>

\* if url_now and self.forum_url in url_now
\* (a test that lets every next-page URL through, for contrast)
StaysAnywhere(next_url, forum_url) == Truthy(next_url)

StaysInSite(next_url, forum_url) == Truthy(next_url) /\ Contains(next_url, forum_url)

\* One test of `while self._get_next_page_link(url_now, soup)` and the body
\* or the exit that follows it; on exit crawl_forum merges the topics of the
\* thread into the Topic Map and moves on.
CrawlNextPage ==
    /\ crawl_pc = "paging"
    /\ LET next_page_link == GetNextPageLink(url_now, soup, manager.profile.pagination)
           next_url == UrlJoin(CrawlCfg.forum_url, next_page_link.link)
           page == Fetch(next_url)
           r == GetThreadTopicsExtract(page, manager.profile, CrawlCfg)
           return == /\ crawl_pc' = "loop"
                     /\ threads_topics' = DictUpdate(threads_topics, thread_topics)
                     /\ crawl_pos' = Advance(crawl_pos)
                     /\ UNCHANGED <<forum_threads, crawl_steps, crawl_ret, chain, url_now, soup,
                                    thread_topics>>
           fail == /\ crawl_pc' = "failed" /\ crawl_ret' = "False"
                   /\ UNCHANGED <<forum_threads, threads_topics, crawl_pos, crawl_steps, chain,
                                  url_now, soup, thread_topics>>
       IN  IF IsRaise(next_page_link) THEN fail
           ELSE IF ~Truthy(next_page_link.link) THEN return
           ELSE IF ~StaysInSite(next_url, CrawlCfg.forum_url) THEN return
           ELSE IF IsRaise(r) THEN fail
           ELSE /\ chain' = Append(chain, next_url)
                /\ url_now' = next_url
                /\ soup' = page
                /\ thread_topics' = DictUpdate(thread_topics, r.topics)
                /\ forum_threads' = forum_threads \o r.appended
                /\ crawl_steps' = crawl_steps + 1
                /\ UNCHANGED <<crawl_pc, crawl_pos, crawl_ret, threads_topics>>
    /\ UNCHANGED <<site, crawl_calls, mergeVars, filterVars, pagVars, itemVars, configVars, scrapVars>>

\* if len(self.threads_topics) == 0: return False; return True
\* (a crawl_forum that reports success whatever it found, for contrast)
CrawlForumReturnsTrue(topics) == "True"

CrawlForumReturns(topics) == IF Len(topics) = 0 THEN "False" ELSE "True"

\* The loops are over: forum_threads becomes one dict and crawl_forum returns
CrawlFinish ==
    /\ crawl_pc = "loop"
    /\ CrawlItem = <<0, 0>>
    /\ crawl_pc' = "done"
    /\ crawl_ret' = CrawlForumReturns(threads_topics)
    /\ forum_threads' = Flatten(forum_threads)
    /\ UNCHANGED <<site, threads_topics, crawl_pos, crawl_steps, crawl_calls, chain, url_now, soup,
                   thread_topics, mergeVars, filterVars, pagVars, itemVars, configVars, scrapVars>>

\* session.get raises (no connection, a timeout): crawl_forum logs it and
\* returns False
WillFetch ==
    \/ crawl_pc = "start"
    \/ crawl_pc = "loop" /\ CrawlItem # <<0, 0>>
    \/ /\ crawl_pc = "paging"
       /\ LET next_page_link == GetNextPageLink(url_now, soup, manager.profile.pagination)
          IN  /\ ~IsRaise(next_page_link)
              /\ Truthy(next_page_link.link)
              /\ StaysInSite(UrlJoin(CrawlCfg.forum_url, next_page_link.link), CrawlCfg.forum_url)

CrawlFetchRaises ==
    /\ WillFetch
    /\ crawl_pc' = "failed"
    /\ crawl_ret' = "False"
    /\ UNCHANGED <<site, forum_threads, threads_topics, crawl_pos, crawl_steps, crawl_calls, chain,
                   url_now, soup, thread_topics, mergeVars, filterVars, pagVars, itemVars, configVars, scrapVars>>

\* crawl_forum is called again on the manager after a call that completed.
\* self.forum_threads is by then the dict the first call made of the list,
\* and only __init__ resets it: self.forum_threads.append raises
\* AttributeError before the root page is fetched, and the except clause
\* returns False.
CrawlAgain ==
    /\ crawl_pc = "done"
    /\ crawl_calls' = crawl_calls + 1
    /\ crawl_pc' = "failed"
    /\ crawl_ret' = "False"
    /\ UNCHANGED <<site, forum_threads, threads_topics, crawl_pos, crawl_steps, chain, url_now, soup,
                   thread_topics, mergeVars, filterVars, pagVars, itemVars, configVars, scrapVars>>

NextCrawl ==
    CrawlStart \/ CrawlThread \/ CrawlNextPage \/ CrawlFinish \/ CrawlFetchRaises \/ CrawlAgain
SpecCrawl == InitCrawl /\ [][NextCrawl]_vars

(***************************************************************************)
(* Discovery on forums whose next-page links go anywhere: to a later page, *)
(* back to an earlier one or to the page itself, or off the site; a page   *)
(* may also list a topic robots.txt denies.  Sub-forum links still go to a *)
(* page of a higher number.                                                *)
(***************************************************************************)
OutHref == <<"X", "/", "f">>
TopicKinds == {"none", "own", "denied"}
NextHrefs(p) == {None, OutHref, PageHref(1)} \cup {PageHref(q) : q \in {p + 1} \cap Pages}

LinkedSoup(p, sub, topic, next) ==
    ThreadAnchors(sub, 1)
    \o (IF topic = "none" THEN <<>>
        ELSE <<Elem(<<"a">>, <<"class">>, <<"topictitle">>,
                    IF topic = "own" THEN TopicHref(p) ELSE DeniedHref, <<"T", Digit(p), "_">>, <<>>)>>)
    \o (IF next = None THEN <<>>
        ELSE <<Elem(<<"a">>, <<"class">>, <<"arrow next">>, next, <<"x">>, <<>>)>>)

LinkedSite(sub, topic, next) ==
    [u \in {PageUrl(p) : p \in Pages} |->
        LET p == CHOOSE p \in Pages : PageUrl(p) = u
        IN  LinkedSoup(p, sub[p], topic[p], next[p])]

InitCrawlLinked ==
    /\ settings = NoOverrides("phpbb")
    /\ manager = [state |-> "ready", profile |-> CheckEngineContent(settings)]
    /\ \E sub \in {f \in [Pages -> SUBSET Pages] :
                      /\ f[0] = Pages \ {0}
                      /\ \A p \in Pages \ {0} : f[p] \in {{}, {p + 1} \cap Pages}} :
       \E topic \in {f \in [Pages -> TopicKinds] :
                        f[0] = "none" /\ \A p \in Pages \ {0, 1} : f[p] # "denied"} :
       \E next \in {f \in [Pages -> UNION {NextHrefs(p) : p \in Pages}] :
                       f[0] = None /\ \A p \in Pages : f[p] \in NextHrefs(p)} :
           site = LinkedSite(sub, topic, next)
    /\ forum_threads = <<>> /\ threads_topics = <<>>
    /\ crawl_pc = "start" /\ crawl_pos = <<0, 0>> /\ crawl_steps = 0 /\ crawl_ret = "none"
    /\ crawl_calls = 0 /\ chain = <<>>
    /\ url_now = None /\ soup = <<>> /\ thread_topics = <<>>
    /\ FilterIdle /\ PagIdle /\ ScrapIdle /\ ItemIdle /\ ConfigIdle

\* On such a forum crawl_forum need not end: the crawl is looked at over
\* its first LinkedSteps page fetches.
LinkedSteps == MaxPage + 4
NextCrawlLinked == crawl_steps < LinkedSteps /\ NextCrawl
SpecCrawlLinked == InitCrawlLinked /\ [][NextCrawlLinked]_vars

\* The links of a page by the rules alone.
ThreadLinks(url) == DictKeys(GetForumThreadsExtract(Fetch(url), manager.profile, CrawlCfg).dict)
TopicLinks(url) ==
    UNION {DictKeys(CrawlerSearchFilter(
                        FindAll(Fetch(url), {ParseRule(manager.profile.topics_class[k]).tag},
                                ParseRule(manager.profile.topics_class[k]).attr,
                                ParseRule(manager.profile.topics_class[k]).val),
                        TopicsCfg(manager.profile, CrawlCfg))) :
           k \in 1..Len(manager.profile.topics_class)}
NextLinks(url) ==
    LET r == GetNextPageLink(url, Fetch(url), manager.profile.pagination)
    IN  IF Truthy(r.link) THEN {UrlJoin(CrawlCfg.forum_url, r.link)} ELSE {}

RECURSIVE ReachThreads(_)
ReachThreads(S) ==
    LET T == S \cup UNION {ThreadLinks(u) : u \in S}
    IN  IF T = S THEN S ELSE ReachThreads(T)

RECURSIVE ReachAll(_)
ReachAll(S) ==
    LET T == S \cup UNION {ThreadLinks(u) \cup NextLinks(u) : u \in S}
    IN  IF T = S THEN S ELSE ReachAll(T)

\* The walks from a page along thread links and next-page links, the page
\* itself counted (a thread link and a next-page link to the same page make
\* two walks): finite, the forum being finite and acyclic.
RECURSIVE WalksIn(_, _)
RECURSIVE SumWalks(_, _)
SumWalks(S, links) ==
    IF S = {} THEN 0
    ELSE LET u == CHOOSE u \in S : TRUE IN WalksIn(u, links) + SumWalks(S \ {u}, links)
WalksIn(url, links) ==
    IF url \in DOMAIN links THEN 1 + SumWalks(links[url][1], links) + SumWalks(links[url][2], links)
    ELSE 1
Walks(url) == WalksIn(url, [u \in DOMAIN site |-> <<ThreadLinks(u), NextLinks(u)>>])

\* C6: on a finite acyclic forum the traversal of the growing forum_threads
\* list, zero-topic fallback appends included, ends after finitely many
\* steps: every step of crawl_forum before its last fetches a page, and the
\* pages fetched never outnumber the walks from the root.
TraversalTerminates == crawl_steps <= Walks(CrawlCfg.forum_url)

\* The list was exhausted after zero-topic fallbacks had appended to it twice or more.
TraversalExhaustedGrownList ==
    crawl_pc = "loop" /\ Len(forum_threads) >= 3 /\ CrawlItem = <<0, 0>> /\ threads_topics # <<>>

\* C7: when discovery ends, the Topic Map holds exactly the topics reachable
\* from the root: every topic link of a listing page reached from the root
\* by thread links is in it, and everything in it is a topic link of a page
\* reached from the root (by thread or next-page links).
TopicMapIsReachableTopics ==
    crawl_pc = "done" =>
        /\ UNION {TopicLinks(u) : u \in ReachThreads(ThreadLinks(CrawlCfg.forum_url))}
               \subseteq DictKeys(threads_topics)
        /\ DictKeys(threads_topics)
               \subseteq UNION {TopicLinks(u) : u \in ReachAll({CrawlCfg.forum_url})}

\* C19: crawl_forum always returns to its caller: when the traversal has
\* completed it returns False for an empty Topic Map and True for a Topic
\* Map with topics in it.
CrawlReportsByTopicMap ==
    /\ crawl_pc \in {"done", "failed"} => crawl_ret \in {"True", "False"}
    /\ crawl_pc = "done" => (crawl_ret = "False" <=> DictKeys(threads_topics) = {})

\* A traversal over sub-forums completed without finding a topic.
EmptyTopicMapReported ==
    crawl_pc = "done" /\ threads_topics = <<>> /\ crawl_ret = "False" /\ crawl_steps >= 3

\* C20: a fetch that fails on a listing page of the queue does not end
\* discovery: the page contributes nothing and the entries after it are
\* still expanded.  (On these forums every rule parses and every next-page
\* element has its href, so crawl_forum fails only where a fetch raises;
\* forum_threads is empty only while the root page has not been read.)
FetchFailureIsPerPage ==
    crawl_pc = "failed" => forum_threads = <<>>

\* C21: a listing page taken from the queue that yields no topic link (by
\* the topic rules and the topic filter) adds nothing to the Topic Map and
\* has its thread links appended to forum_threads, the queue being crawled.
ZeroTopicPageFallsBack ==
    [][(crawl_pc = "loop" /\ crawl_pc' = "paging" /\ TopicLinks(url_now') = {}) =>
          /\ thread_topics' = <<>>
          /\ forum_threads' =
                 Append(forum_threads, GetForumThreadsExtract(soup', manager.profile, CrawlCfg).dict)]_vars

\* C22: a second call of crawl_forum on a forum whose pages did not change
\* leaves the Topic Map the first call built, without duplicate entries,
\* and reports what the first call reported: success when it found topics.
RediscoveryIsIdempotent ==
    [][(crawl_calls = 1 /\ crawl_calls' = 2) =>
          /\ threads_topics' = threads_topics
          /\ Cardinality(DictKeys(threads_topics')) = Len(threads_topics')
          /\ crawl_ret' = crawl_ret]_vars

\* The entries of the queue while crawl_forum iterates over it, in order.
RECURSIVE QueueUrls(_)
QueueUrls(list) ==
    IF list = <<>> THEN <<>>
    ELSE [k \in 1..Len(Head(list)) |-> Head(list)[k][1]] \o QueueUrls(Tail(list))

\* C24: a listing URL is put in the traversal queue only when it is not in
\* it yet, so no URL is in the queue twice and none is expanded twice.
QueueHoldsEachListingOnce ==
    crawl_pc \in {"loop", "paging"} =>
        \A k, l \in 1..Len(QueueUrls(forum_threads)) :
            QueueUrls(forum_threads)[k] = QueueUrls(forum_threads)[l] => k = l

\* C25: every listing page the traversal took from the queue has had its
\* thread links enqueued, whether or not it also listed topics: when
\* discovery ends they are all among the listings found.
ExpandedPagesEnqueueTheirThreads ==
    crawl_pc = "done" =>
        \A u \in DictKeys(forum_threads) : ThreadLinks(u) \subseteq DictKeys(forum_threads)

\* C26: the root page is scanned with the topic rules like any listing
\* page: the topic links on it are in the Topic Map when discovery ends.
RootTopicsInTopicMap ==
    crawl_pc = "done" => TopicLinks(CrawlCfg.forum_url) \subseteq DictKeys(threads_topics)

\* C27: the pagination-follow loop of _get_thread_topics fetches no page
\* twice within one chain, also when the next-page links make a cycle of
\* more than one page (a page whose next link is the page itself is the
\* matter of C9 and is left aside here).
FollowChainFetchesNoPageTwice ==
    (\A k \in 1..(Len(chain) - 1) : chain[k] # chain[k + 1]) =>
        \A k, l \in 1..Len(chain) : chain[k] = chain[l] => k = l

\* The topic links of the pages of a chain, by the rules alone.
ChainTopics(pages) == UNION {TopicLinks(pages[k]) : k \in 1..Len(pages)}

\* C28: _get_thread_topics follows the next-page links from the listing
\* page it was called for: every page it fetches after the first is the
\* next-page link of the page before it, resolved against the forum URL,
\* and contains the forum URL; the topics it has found are those of all the
\* pages fetched; and it has returned only from a page that has no next
\* link or one that leaves the site, which is never fetched.
FollowsNextPagesWithinSite ==
    (crawl_pc \in {"paging", "loop"} /\ chain # <<>>) =>
        /\ \A k \in 2..Len(chain) :
               /\ NextLinks(chain[k - 1]) = {chain[k]}
               /\ Contains(chain[k], CrawlCfg.forum_url)
        /\ DictKeys(thread_topics) = ChainTopics(chain)
        /\ crawl_pc = "loop" =>
               /\ \A u \in NextLinks(chain[Len(chain)]) : ~Contains(u, CrawlCfg.forum_url)
               /\ ChainTopics(chain) \subseteq DictKeys(threads_topics)

\* A call followed a next-page link to a second page with a topic of its
\* own and returned there, the next link of that page leaving the site.
StoppedAtLinkOffSite ==
    /\ crawl_pc = "loop" /\ Len(chain) = 2
    /\ NextLinks(chain[2]) = {OutHref}
    /\ TopicLinks(chain[2]) \ TopicLinks(chain[1]) # {}
    /\ TopicLinks(chain[1]) # {}

(***************************************************************************)
(* Extraction: Scraper.start_scraper / _scrap_txt_mp over a worker pool,   *)
(* run once and then a second time against the store the first run left.   *)
(***************************************************************************)
Page2Url(k) == TopicUrl(k) \o <<"p2">>

ShortText == <<"_", "x", "n">>
ThresholdText == [i \in 1..MIN_LEN_TXT |-> "x"] \o <<"_">>
LongText == <<"_">> \o [i \in 1..(MIN_LEN_TXT + 1) |-> "x"]

ContentBlock(text) == Elem(<<"div">>, <<"class">>, <<"content">>, None, text, <<>>)
TitleBlock == Elem(<<"h2">>, <<"class">>, <<"topic-title">>, None, <<"T", "_">>, <<>>)
NextAnchor(k) == Elem(<<"a">>, <<"class">>, <<"next">>, Page2Url(k), <<"x">>, <<>>)

\* What a topic can be on the web: the request fails, the server answers
\* with an error, the page is oversized, or the page has posts (long or
\* short, with or without a title element, on one page or two; "threshold":
\* posts of exactly MIN_LEN_TXT characters once stripped).
Scenarios == {"unreachable", "error", "oversized", "long", "short", "threshold", "two pages"}

FirstPage(k, scenario) ==
    CASE scenario = "unreachable" -> Response("raise", 0, <<>>)
      [] scenario = "error" -> Response("notok", 1, <<ContentBlock(LongText)>>)
      [] scenario = "oversized" -> Response("ok", SizeCeiling + 1, <<ContentBlock(LongText)>>)
      [] scenario = "long" -> Response("ok", 1, <<TitleBlock, ContentBlock(LongText)>>)
      [] scenario = "short" -> Response("ok", 1, <<ContentBlock(ShortText)>>)
      [] scenario = "threshold" -> Response("ok", 1, <<TitleBlock, ContentBlock(ThresholdText)>>)
      [] scenario = "two pages" -> Response("ok", 1, <<ContentBlock(ShortText), NextAnchor(k)>>)

SecondPage(k, scenario) ==
    IF scenario = "two pages" THEN Response("ok", 1, <<ContentBlock(LongText)>>)
    ELSE Response("notok", 1, <<>>)

Webs(n) ==
    {[u \in {TopicUrl(k) : k \in 1..n} \cup {Page2Url(k) : k \in 1..n} |->
        LET k == CHOOSE k \in 1..n : u \in {TopicUrl(k), Page2Url(k)}
        IN  IF u = TopicUrl(k) THEN FirstPage(k, sc[k]) ELSE SecondPage(k, sc[k])] :
        sc \in [1..n -> Scenarios]}

\* The rule lists a worker is given: rules in the "tag >> attr :: value"
\* form, or the lists of the phpBB engine class.
WorkerRules ==
    {[content_class |-> <<Rule("div", "class", "content")>>,
      topic_title_class |-> <<Rule("h2", "class", "topic-title")>>,
      pagination |-> <<<<"next">>>>],
     [content_class |-> PhpBBCrawler.content_class,
      topic_title_class |-> PhpBBCrawler.topic_title_class,
      pagination |-> PhpBBCrawler.pagination]}

VisitedRecord(url, title, visited_flag, skip_flag) ==
    [Topic_URLs |-> url, Topic_Titles |-> title, Visited_flag |-> visited_flag,
     Skip_flag |-> skip_flag]

\* crawler.get_urls_to_scrap(): the Topic Map minus the URLs of the Visited
\* Records, in the Topic Map's order.
GetUrlsToScrap(topics, visited) ==
    SelectSeq(topics, LAMBDA u : \A k \in 1..Len(visited) : visited[k].Topic_URLs # u)

\* arch_manager.add_to_visited_file(df): the batch is appended to the store.
AddToVisitedFile(file, df) == file \o df

\* ar.add_data(txt, meta) and ar.commit()
AddData(ar, txt, meta) == [ar EXCEPT !.data = Append(@, [text |-> txt, meta |-> meta])]
Commit(ar) == [data |-> <<>>, committed |-> ar.committed \o ar.data]

RECURSIVE SumFlags(_, _)
SumFlags(visited, flag) ==
    IF visited = <<>> THEN 0 ELSE Head(visited)[flag] + SumFlags(Tail(visited), flag)

Waiting == [state |-> "waiting"]

Init ==
    /\ rules \in WorkerRules
    /\ \E n \in 0..MaxTopics :
          /\ topic_map = [k \in 1..n |-> TopicUrl(k)]
          /\ web \in Webs(n)
    /\ visited_topics = <<>> /\ visited_file = <<>> /\ archive = EmptyArchive
    /\ topics_minus_visited = GetUrlsToScrap(topic_map, visited_topics)
    /\ scrap_pc = "start" /\ run = 1 /\ docs_at_start = 0
    /\ next_task = 0 /\ workers = {} /\ results = <<>> /\ all_visited_urls = <<>>
    /\ total = 0 /\ added = 0 /\ skipped = 0 /\ total_docs = 0
    /\ visited_urls_dataframe = <<>>
    /\ MergeIdle /\ FilterIdle /\ PagIdle /\ CrawlIdle /\ ItemIdle /\ ConfigIdle

\* initargs = [visited_topics['Topic_URLs'], ...]: the column of the URLs of
\* the Visited Records loaded at startup, which every worker of the pool
\* gets as its own copy
\* (a pool that is started without the loaded URLs, for contrast)
InitargsEmpty(visited) == <<>>

Initargs(visited) == [k \in 1..Len(visited) |-> visited[k].Topic_URLs]

\* _scrap_txt_mp up to the driving loop: the counts, and the pool
ScrapStart ==
    /\ scrap_pc = "start"
    /\ total_docs' = SumFlags(visited_topics, "Visited_flag") - SumFlags(visited_topics, "Skip_flag")
    /\ IF Len(topics_minus_visited) # 0
       THEN /\ scrap_pc' = "loop"
            /\ next_task' = 1
            /\ workers' = {}
            /\ results' = [i \in 1..Len(topics_minus_visited) |-> Waiting]
            /\ all_visited_urls' = Initargs(visited_topics)
       ELSE /\ scrap_pc' = "returned"
            /\ UNCHANGED poolVars
    /\ total' = 0 /\ added' = 0 /\ skipped' = 0 /\ visited_urls_dataframe' = <<>>
    /\ UNCHANGED <<storeVars, runVars, mergeVars, filterVars, pagVars, itemVars, configVars, crawlVars>>

\* pool.imap(chunksize = 1): a worker of the pool that is idle is handed the
\* next URL
WorkerTake ==
    /\ scrap_pc = "loop"
    /\ Cardinality(workers) < PROCESSES
    /\ next_task <= Len(topics_minus_visited)
    /\ workers' = workers \cup {next_task}
    /\ next_task' = next_task + 1
    /\ UNCHANGED <<scrap_pc, results, all_visited_urls, loopVars, storeVars, runVars,
                   mergeVars, filterVars, pagVars, itemVars, configVars, crawlVars>>

\* The worker processing URL i finishes _process_item; what it returned, or
\* the exception it raised, waits for the driving loop.
WorkerFinish(i) ==
    /\ scrap_pc = "loop"
    /\ i \in workers
    /\ results' = [results EXCEPT ![i] =
                       ProcessItem(topics_minus_visited[i], all_visited_urls, web, rules, ForumUrl)]
    /\ workers' = workers \ {i}
    /\ UNCHANGED <<scrap_pc, next_task, all_visited_urls, loopVars, storeVars, runVars,
                   mergeVars, filterVars, pagVars, itemVars, configVars, crawlVars>>

\* if total % SAVE_STATE == 0 and added > 0
Checkpoint(total_now, added_now) == total_now % SAVE_STATE = 0 /\ added_now > 0

\* pool.imap(func, iterable, chunksize = 1): the iterator yields the results
\* in the order of the iterable, so after `handled` results the next one is
\* that of URL handled + 1, whichever results are ready.
\* (an iterator that yields a later result that is ready, as imap_unordered
\* may, for contrast)
ImapUnordered(handled, res) ==
    IF \E j \in (handled + 2)..Len(res) : res[j] # Waiting
    THEN CHOOSE j \in (handled + 2)..Len(res) : res[j] # Waiting
    ELSE handled + 1

Imap(handled, res) == handled + 1

\* if txt and len(txt) > self.config.settings["MIN_LEN_TXT"]
\* (a test that also keeps a text of exactly the minimum length, for contrast)
KeepsTextAtThreshold(txt, min_len_txt) == txt # <<>> /\ Len(txt) >= min_len_txt

KeepsText(txt, min_len_txt) == txt # <<>> /\ Len(txt) > min_len_txt

\* visit_temp: the Visited Record of the result, if it gets one
\* (a loop that writes no record for a skipped result, for contrast)
VisitTempOfDocuments(meta, title, is_doc) ==
    IF is_doc THEN <<VisitedRecord(meta.url, title, 1, 0)>> ELSE <<>>

VisitTemp(meta, title, is_doc) ==
    IF is_doc THEN <<VisitedRecord(meta.url, title, 1, 0)>>
    ELSE IF meta.skip # "visited" THEN <<VisitedRecord(meta.url, title, 0, 1)>>
    ELSE <<>>

\* The checkpoint's write of the batch: add_to_visited_file(visited_urls_dataframe),
\* then visited_urls_dataframe is a new, empty frame.
\* (a checkpoint that keeps the written records in the batch, for contrast)
CheckpointBatchKept(file, df) == [file |-> AddToVisitedFile(file, df), df |-> df]

CheckpointBatch(file, df) == [file |-> AddToVisitedFile(file, df), df |-> <<>>]

\* One pass of the body of `for txt, meta in pool.imap(...)`: imap yields the
\* results in the order of the URLs.
HandleResult ==
    /\ scrap_pc = "loop"
    /\ total < Len(topics_minus_visited)
    /\ results[Imap(total, results)] # Waiting
    /\ ~results[Imap(total, results)].exc
    /\ LET txt == results[Imap(total, results)].txt
           meta == results[Imap(total, results)].meta
           is_doc == KeepsText(txt, MIN_LEN_TXT)
           title == IF is_doc /\ ~Truthy(meta.topic_title) THEN <<"x">> ELSE meta.topic_title
           visit_temp == VisitTemp(meta, title, is_doc)
           ar == IF is_doc THEN AddData(archive, txt, [meta EXCEPT !.topic_title = title])
                 ELSE archive
           df == visited_urls_dataframe \o visit_temp
           added_now == IF is_doc THEN added + 1 ELSE added
       IN  /\ total' = total + 1
           /\ total_docs' = IF is_doc THEN total_docs + 1 ELSE total_docs
           /\ added' = added_now
           /\ skipped' = IF is_doc THEN skipped ELSE skipped + 1
           /\ IF Checkpoint(total + 1, added_now)
              THEN /\ visited_file' = CheckpointBatch(visited_file, df).file
                   /\ visited_urls_dataframe' = CheckpointBatch(visited_file, df).df
                   /\ archive' = Commit(ar)
              ELSE /\ visited_urls_dataframe' = df
                   /\ archive' = ar
                   /\ UNCHANGED visited_file
    /\ UNCHANGED <<scrap_pc, poolVars, runVars, mergeVars, filterVars, pagVars, itemVars, configVars, crawlVars>>

\* imap re-raises in the driving loop the exception a worker raised for the
\* next URL in order: `except Exception` after the loop logs it.
LoopRaise ==
    /\ scrap_pc = "loop"
    /\ total < Len(topics_minus_visited)
    /\ results[Imap(total, results)] # Waiting
    /\ results[Imap(total, results)].exc
    /\ scrap_pc' = "final"
    /\ UNCHANGED <<poolVars, loopVars, storeVars, runVars, mergeVars, filterVars, pagVars, itemVars, configVars, crawlVars>>

\* The iterable is exhausted
LoopEnd ==
    /\ scrap_pc = "loop"
    /\ total = Len(topics_minus_visited)
    /\ scrap_pc' = "final"
    /\ UNCHANGED <<poolVars, loopVars, storeVars, runVars, mergeVars, filterVars, pagVars, itemVars, configVars, crawlVars>>

\* (a return that commits the Archive but leaves the batch unsaved, for contrast)
FinalSaveCommitOnly ==
    /\ scrap_pc = "final"
    /\ archive' = Commit(archive)
    /\ scrap_pc' = "returned"
    /\ UNCHANGED <<visited_file, poolVars, loopVars, runVars, mergeVars, filterVars, pagVars, itemVars, configVars, crawlVars>>

\* ar.commit(); add_to_visited_file(visited_urls_dataframe); the pool is
\* closed and _scrap_txt_mp returns total_docs
FinalSave ==
    /\ scrap_pc = "final"
    /\ archive' = Commit(archive)
    /\ visited_file' = AddToVisitedFile(visited_file, visited_urls_dataframe)
    /\ scrap_pc' = "returned"
    /\ UNCHANGED <<poolVars, loopVars, runVars, mergeVars, filterVars, pagVars, itemVars, configVars, crawlVars>>

\* The program is started again on the same Topic Map: the store is loaded
\* and the URLs without a Visited Record are the ones to scrape.  The site
\* answers for itself: its pages need not be what they were.
Rerun ==
    /\ scrap_pc = "returned"
    /\ run = 1
    /\ run' = 2
    /\ web' \in Webs(Len(topic_map))
    /\ visited_topics' = visited_file
    /\ topics_minus_visited' = GetUrlsToScrap(topic_map, visited_file)
    /\ docs_at_start' = Len(archive.committed)
    /\ scrap_pc' = "start"
    /\ next_task' = 0 /\ workers' = {} /\ results' = <<>> /\ all_visited_urls' = <<>>
    /\ total' = 0 /\ added' = 0 /\ skipped' = 0 /\ total_docs' = 0
    /\ visited_urls_dataframe' = <<>>
    /\ UNCHANGED <<storeVars, rules, topic_map, mergeVars, filterVars, pagVars, itemVars, configVars, crawlVars>>

Next ==
    \/ ScrapStart
    \/ WorkerTake
    \/ \E i \in 1..MaxTopics : WorkerFinish(i)
    \/ HandleResult
    \/ LoopRaise
    \/ LoopEnd
    \/ FinalSave
Spec == Init /\ [][Next]_vars

\* Extraction run twice
NextRerun == Next \/ Rerun
SpecRerun == Init /\ [][NextRerun]_vars

\* The process is killed inside a checkpoint, between its two writes: the
\* pass of the loop has run up to add_to_visited_file(visited_urls_dataframe)
\* and ar.commit() is never reached; what add_data put in the Archive's
\* memory is gone with the process.
KilledInCheckpoint ==
    /\ scrap_pc = "loop"
    /\ total < Len(topics_minus_visited)
    /\ results[Imap(total, results)] # Waiting
    /\ ~results[Imap(total, results)].exc
    /\ LET txt == results[Imap(total, results)].txt
           meta == results[Imap(total, results)].meta
           is_doc == KeepsText(txt, MIN_LEN_TXT)
           title == IF is_doc /\ ~Truthy(meta.topic_title) THEN <<"x">> ELSE meta.topic_title
           df == visited_urls_dataframe \o VisitTemp(meta, title, is_doc)
           added_now == IF is_doc THEN added + 1 ELSE added
       IN  /\ Checkpoint(total + 1, added_now)
           /\ total' = total + 1
           /\ total_docs' = IF is_doc THEN total_docs + 1 ELSE total_docs
           /\ added' = added_now
           /\ skipped' = IF is_doc THEN skipped ELSE skipped + 1
           /\ visited_file' = CheckpointBatch(visited_file, df).file
           /\ visited_urls_dataframe' = CheckpointBatch(visited_file, df).df
           /\ archive' = IF is_doc THEN AddData(archive, txt, [meta EXCEPT !.topic_title = title])
                         ELSE archive
    /\ scrap_pc' = "killed"
    /\ UNCHANGED <<poolVars, runVars, mergeVars, filterVars, pagVars, itemVars, configVars, crawlVars>>

\* The process is killed inside the final save, between its two writes:
\* ar.commit() is done and add_to_visited_file is never reached.
KilledInFinalSave ==
    /\ scrap_pc = "final"
    /\ archive' = Commit(archive)
    /\ scrap_pc' = "killed"
    /\ UNCHANGED <<visited_file, poolVars, loopVars, runVars, mergeVars, filterVars, pagVars, itemVars, configVars, crawlVars>>

\* Extraction with the process killed between the two writes of a save
NextKilled == Next \/ KilledInCheckpoint \/ KilledInFinalSave
SpecKilled == Init /\ [][NextKilled]_vars

\* Extraction started on a store an earlier run has left: the first m topics
\* of the Topic Map were handled and skipped then, so the store holds their
\* Visited Records (Visited_flag 0, Skip_flag 1, no title) and the Archive is
\* empty; at least one topic was handled, and the pages of the handled
\* topics, which this run does not fetch, are left unreachable.
LoadedStore(m) == [k \in 1..m |-> VisitedRecord(TopicUrl(k), <<>>, 0, 1)]
LoadedWebs(n, m) ==
    {[u \in {TopicUrl(k) : k \in 1..n} \cup {Page2Url(k) : k \in 1..n} |->
        LET k == CHOOSE k \in 1..n : u \in {TopicUrl(k), Page2Url(k)}
            scenario == IF k <= m THEN "unreachable" ELSE sc[k]
        IN  IF u = TopicUrl(k) THEN FirstPage(k, scenario) ELSE SecondPage(k, scenario)] :
        sc \in [(m + 1)..n -> Scenarios]}

InitLoaded ==
    /\ rules \in WorkerRules
    /\ \E n \in 1..MaxTopics : \E m \in 1..n :
          /\ topic_map = [k \in 1..n |-> TopicUrl(k)]
          /\ web \in LoadedWebs(n, m)
          /\ visited_topics = LoadedStore(m)
    /\ visited_file = visited_topics /\ archive = EmptyArchive
    /\ topics_minus_visited = GetUrlsToScrap(topic_map, visited_topics)
    /\ scrap_pc = "start" /\ run = 1 /\ docs_at_start = 0
    /\ next_task = 0 /\ workers = {} /\ results = <<>> /\ all_visited_urls = <<>>
    /\ total = 0 /\ added = 0 /\ skipped = 0 /\ total_docs = 0
    /\ visited_urls_dataframe = <<>>
    /\ MergeIdle /\ FilterIdle /\ PagIdle /\ CrawlIdle /\ ItemIdle /\ ConfigIdle

SpecLoaded == InitLoaded /\ [][Next]_vars

\* The results of the run a worker has delivered, and those the driving loop
\* has consumed.
Delivered == {i \in DOMAIN results : results[i] # Waiting}
Handled == 1..total
IsDocument(i) == results[i].txt # <<>> /\ Len(results[i].txt) > MIN_LEN_TXT
Persisted(i) ==
    \E k \in 1..Len(visited_file) :
        /\ visited_file[k].Topic_URLs = topics_minus_visited[i]
        /\ visited_file[k].Visited_flag = (IF IsDocument(i) THEN 1 ELSE 0)
        /\ visited_file[k].Skip_flag = (IF IsDocument(i) THEN 0 ELSE 1)
Archived(i) ==
    \E k \in 1..Len(archive.committed) :
        /\ archive.committed[k].meta.url = topics_minus_visited[i]
        /\ archive.committed[k].text = results[i].txt

\* C1: an exception raised while a worker processes a topic URL becomes a
\* skip result for that URL: no worker delivers an exception to the driving
\* loop, and when the run returns every URL of the run has been handled.
WorkerExceptionBecomesSkip ==
    /\ \A i \in Delivered : ~results[i].exc
    /\ scrap_pc = "returned" => total = Len(topics_minus_visited)

\* C2: whenever the number of handled results is a multiple of SAVE_STATE
\* the batch has been persisted and the Archive committed, so the handled
\* results not yet persisted never number more than SAVE_STATE, also while
\* no document has been added.
CheckpointEverySaveState ==
    /\ (scrap_pc = "loop" /\ total > 0 /\ total % SAVE_STATE = 0) =>
            (visited_urls_dataframe = <<>> /\ archive.data = <<>>)
    /\ scrap_pc \in {"loop", "final"} => Len(visited_urls_dataframe) <= SAVE_STATE

\* C3: when _scrap_txt_mp returns, whether its loop ended normally or by an
\* exception, the Archive is committed and every result the loop handled has
\* its Visited Record in the store (and its document, if any, in the
\* committed Archive).
FinalSavePersistsHandled ==
    scrap_pc = "returned" =>
        /\ archive.data = <<>>
        /\ \A i \in Handled : Persisted(i) /\ (IsDocument(i) => Archived(i))

\* The loop was ended by a worker's exception while the batch held the
\* record of a document, and the run returned.
FinalSaveAfterException ==
    /\ scrap_pc = "returned"
    /\ total < Len(topics_minus_visited)
    /\ results[total + 1] # Waiting /\ results[total + 1].exc
    /\ \E i \in Handled : IsDocument(i)
    /\ visited_urls_dataframe # <<>>

\* C4: when the run returns, every URL a worker finished before the loop
\* ended (without raising) has its outcome recorded, even though another
\* URL raised.
NoFinishedResultLost ==
    scrap_pc = "returned" =>
        \A i \in Delivered : ~results[i].exc => Persisted(i)

\* C5: a second run against the store and the Archive the first run left
\* adds nothing to the Archive.
RerunAddsNothing ==
    run = 2 => Len(archive.committed) + Len(archive.data) = docs_at_start

\* The Visited Records written so far, in the store or still in the batch
\* (the batch is saved, and not emptied, when the run returns), and the
\* documents added to the Archive, committed or not.
Records ==
    IF scrap_pc = "returned" THEN visited_file ELSE visited_file \o visited_urls_dataframe
Documents == archive.committed \o archive.data
Oversized(i) ==
    LET response == WebGet(web, topics_minus_visited[i])
    IN  response.status = "ok" /\ response.size > SizeCeiling

\* C12: a topic whose first page is larger than the size ceiling gives a
\* normal result with empty text and metadata that marks it skipped; once
\* handled it is recorded as skipped, and nothing is written to the Archive
\* for its URL.
OversizedIsSkipped ==
    \A i \in Delivered :
        Oversized(i) =>
            /\ ~results[i].exc
            /\ results[i].txt = <<>>
            /\ results[i].meta.skip = "error"
            /\ i \in Handled =>
                   \E k \in 1..Len(Records) :
                       /\ Records[k].Topic_URLs = topics_minus_visited[i]
                       /\ Records[k].Skip_flag = 1
            /\ \A k \in 1..Len(Documents) : Documents[k].meta.url # topics_minus_visited[i]

\* C13: a handled result is in the Archive iff its text is not empty and
\* longer than MIN_LEN_TXT, and is counted as added; every other handled
\* result, a fetched text of MIN_LEN_TXT characters or fewer included, is
\* counted as skipped, recorded as skipped and in the Archive nowhere.
Long(i) == results[i].txt # <<>> /\ Len(results[i].txt) > MIN_LEN_TXT
InArchive(i) ==
    \E k \in 1..Len(Documents) :
        Documents[k].meta.url = topics_minus_visited[i] /\ Documents[k].text = results[i].txt
RecordedSkipped(i) ==
    \E k \in 1..Len(Records) :
        /\ Records[k].Topic_URLs = topics_minus_visited[i]
        /\ Records[k].Visited_flag = 0 /\ Records[k].Skip_flag = 1
RecordsOf(i) == {k \in 1..Len(Records) : Records[k].Topic_URLs = topics_minus_visited[i]}
OneRecordPerHandledResult ==
    scrap_pc \in {"loop", "final", "returned"} =>
        /\ \A i \in Handled :
               IF results[i].meta.skip = "visited" THEN RecordsOf(i) = {}
               ELSE /\ Cardinality(RecordsOf(i)) = 1
                    /\ \A k \in RecordsOf(i) :
                           <<Records[k].Visited_flag, Records[k].Skip_flag>> =
                               (IF InArchive(i) THEN <<1, 0>> ELSE <<0, 1>>)
        /\ Len(Records) = Cardinality({i \in Handled : results[i].meta.skip # "visited"})
        /\ \A k \in 1..Len(Records) : Records[k].Visited_flag + Records[k].Skip_flag = 1

\* The run returned after it had handled an archived result and a skipped one.
DocumentAndSkipRecorded ==
    /\ scrap_pc = "returned"
    /\ \E i \in Handled : InArchive(i)
    /\ \E i \in Handled : ~InArchive(i) /\ results[i].meta.skip = "error"

(***************************************************************************)
(* A worker's _process_item: calls on bounded inputs.  The worker's        *)
(* all_visited_urls is the Series visited_topics['Topic_URLs'] handed to   *)
(* _initialize_worker, here the sequence of its values.                    *)
(***************************************************************************)
ItemUrls == {TopicUrl(1), TopicUrl(2)}
ItemSeries ==
    {<<>>} \cup {<<u>> : u \in {TopicUrl(k) : k \in 1..3}}
    \cup {<<u, v>> : u \in {TopicUrl(k) : k \in 1..3}, v \in {TopicUrl(k) : k \in 1..3}}

\* A topic of two pages whose first page gives the link to the second as a
\* relative href, beside the topics of one URL above.
RelativeNextAnchor(k) ==
    Elem(<<"a">>, <<"class">>, <<"next">>, TopicHref(k) \o <<"p2">>, <<"x">>, <<>>)
RelativeWeb ==
    [u \in {TopicUrl(1), Page2Url(1)} |->
        IF u = TopicUrl(1)
        THEN Response("ok", 1, <<TitleBlock, ContentBlock(ShortText), RelativeNextAnchor(1)>>)
        ELSE Response("ok", 1, <<ContentBlock(LongText)>>)]
ItemWebs == Webs(1) \cup {RelativeWeb}

InitProcessItem ==
    /\ item_call \in [state : {"called"}, url : ItemUrls, all_visited_urls : ItemSeries,
                       web : ItemWebs, rules : WorkerRules]
    /\ item_ret = Idle
    /\ MergeIdle /\ FilterIdle /\ PagIdle /\ CrawlIdle /\ ScrapIdle /\ ConfigIdle

\* _process_item calls _get_item_text, whose first statement is the
\* session.get of the URL, exactly when `url not in all_visited_urls`
ItemFetches(url, visited_urls) == ~SeriesContains(visited_urls, url)

CallProcessItem ==
    /\ item_ret = Idle
    /\ LET r == ProcessItem(item_call.url, item_call.all_visited_urls, item_call.web,
                            item_call.rules, ForumUrl)
       IN  item_ret' = [state |-> IF r.exc THEN "raised" ELSE "returned",
                        txt |-> r.txt, meta |-> r.meta,
                        fetched |-> ItemFetches(item_call.url, item_call.all_visited_urls),
                        events |-> IF ItemFetches(item_call.url, item_call.all_visited_urls)
                                   THEN GetItemTextEvents(item_call.url, item_call.web,
                                                          item_call.rules, ForumUrl)
                                   ELSE <<>>]
    /\ UNCHANGED <<item_call, mergeVars, filterVars, pagVars, crawlVars, scrapVars, configVars>>

NextProcessItem == CallProcessItem
SpecProcessItem == InitProcessItem /\ [][NextProcessItem]_vars

\* C15: for a URL that is among the visited URLs loaded at pool start,
\* _process_item issues no fetch and returns empty text with metadata
\* skip = 'visited'.
VisitedUrlShortCircuits ==
    (item_ret # Idle
     /\ \E k \in 1..Len(item_call.all_visited_urls) : item_call.all_visited_urls[k] = item_call.url) =>
        /\ item_ret.state = "returned"
        /\ ~item_ret.fetched
        /\ item_ret.txt = <<>>
        /\ item_ret.meta.skip = "visited"

\* The content blocks the content rules find on a page, and the first and
\* the second page of the topic of a call: the second is the page at the
\* next-page link of the first, resolved against the site URL.
PageBlocks(page, content_class) ==
    ContentLoop(page, content_class, [bound |-> FALSE, blocks |-> <<>>]).blocks
ItemFirstPage == WebGet(item_call.web, item_call.url)
ItemNextUrl ==
    UrlJoin(ForumUrl,
            GetNextPageLink(item_call.url, ItemFirstPage.soup, item_call.rules.pagination).link)
ItemHasSecondPage ==
    /\ item_ret # Idle
    /\ \A k \in 1..Len(item_call.rules.content_class) :
           ~IsRaise(ParseRule(item_call.rules.content_class[k]))
    /\ ItemFirstPage.status = "ok" /\ ItemFirstPage.size <= SizeCeiling
    /\ ~IsRaise(GetNextPageLink(item_call.url, ItemFirstPage.soup, item_call.rules.pagination))
    /\ Truthy(GetNextPageLink(item_call.url, ItemFirstPage.soup, item_call.rules.pagination).link)
    /\ Contains(ItemNextUrl, ForumUrl)
    /\ WebGet(item_call.web, ItemNextUrl).status = "ok"

\* C29: when the first page of a topic has a next-page link whose resolved
\* URL contains the site URL, be the href absolute or relative, the page at
\* the resolved URL is fetched and its content blocks are appended to the
\* text; the title is that of the first page.
NextPageTextAppended ==
    ItemHasSecondPage =>
        /\ item_ret.state = "returned"
        /\ item_ret.txt =
              Strip(TextOf(PageBlocks(ItemFirstPage.soup, item_call.rules.content_class))
                    \o TextOf(PageBlocks(WebGet(item_call.web, ItemNextUrl).soup,
                                         item_call.rules.content_class)))
        /\ item_ret.meta.topic_title =
              TitleLoop(ItemFirstPage.soup, item_call.rules.topic_title_class, <<>>)

\* C32: a worker waits the inter-request delay after every page fetch it
\* issues, failed fetches included: in the requests and waits of one unit
\* every fetch is followed at once by a wait, so the unit also ends with a
\* wait before the worker's next unit fetches.
DelayAfterEveryFetch ==
    item_ret # Idle =>
        \A k \in 1..Len(item_ret.events) :
            item_ret.events[k] = "get" =>
                k < Len(item_ret.events) /\ item_ret.events[k + 1] = "sleep"

\* C16 (as stated): results are consumed in completion order, so a result a
\* worker has finished is at hand for the driving loop at once: the loop
\* never waits for an earlier-submitted URL while a later one is finished.
FinishedResultNeverWaits ==
    (scrap_pc = "loop" /\ \E i \in Delivered : i > total) => results[total + 1] # Waiting

\* C16 (amended): results are consumed in submission order: the Visited
\* Records, one per handled result, are those of the first URLs of the run
\* in the order they were submitted, whatever the order the workers finish in.
ResultsHandledInSubmissionOrder ==
    scrap_pc \in {"loop", "final", "returned"} =>
        /\ Len(Records) = total
        /\ \A k \in 1..total : Records[k].Topic_URLs = topics_minus_visited[k]

\* After a result was handled, a later URL is finished while the next one
\* in order is still being processed.
EarlyResultWaits ==
    /\ scrap_pc = "loop" /\ total >= 1 /\ total + 2 <= Len(results)
    /\ results[total + 1] = Waiting /\ (total + 1) \in workers
    /\ results[total + 2] # Waiting /\ ~results[total + 2].exc

(***************************************************************************)
(* Configuration: ConfigManager.__init__ on its arguments, up to the       *)
(* robots.txt check.  robots is what the site's robots.txt gives for the   *)
(* root URL: "allows", "denies", or "unreachable" when no request for it   *)
(* gets through (urlopen raises URLError, also in rp.read()).              *)
(***************************************************************************)
NotAList == [is_list |-> FALSE, items |-> <<>>]
ParamNames ==
    {"threads_class", "threads_whitelist", "threads_blacklist", "topic_class", "topic_whitelist",
     "topic_blacklist", "pagination", "topic_title_class", "content_class"}

\* _check_instance: every parameter that is not a list is logged with
\* self.logger_tool, then exit().  Where the attribute logger_tool is not
\* set yet the first log call raises AttributeError; the handler logs with
\* self.logger_tool in its turn, and that AttributeError leaves the method.
\* (a check that leaves content_class out, for contrast)
CheckInstanceButContent(args, logger_tool_bound) ==
    IF \A p \in ParamNames \ {"content_class"} : args[p].is_list THEN "ok"
    ELSE IF logger_tool_bound THEN "exit" ELSE "raise"

CheckInstance(args, logger_tool_bound) ==
    IF \A p \in ParamNames : args[p].is_list THEN "ok"
    ELSE IF logger_tool_bound THEN "exit" ELSE "raise"

\* _check_robots_txt: exit() when the root is denied and force_crawl is False
CheckRobotsTxt(robots, force_crawl) ==
    IF robots = "unreachable" THEN "raise"
    ELSE IF robots = "denies" /\ force_crawl = FALSE THEN "exit"
    ELSE "ok"

\* The status the process ends with: exit() without an argument is
\* SystemExit(None), status 0; an exception nobody catches is status 1.
ExitStatus(how) == IF how = "exit" THEN 0 ELSE 1

ConfigArgs ==
    [threads_class : {ListOf(<<>>), ListOf(<<UserRule1>>), ListOf(<<<<"forumtitle">>>>), NotAList},
     threads_whitelist : {ListOf(<<>>), NotAList}, threads_blacklist : {ListOf(<<>>), NotAList},
     topic_class : {ListOf(<<>>), NotAList}, topic_whitelist : {ListOf(<<>>), NotAList},
     topic_blacklist : {ListOf(<<>>), NotAList}, pagination : {ListOf(<<>>), NotAList},
     topic_title_class : {ListOf(<<>>), NotAList}, content_class : {ListOf(<<>>), NotAList},
     force_crawl : BOOLEAN, check_robots : BOOLEAN, robots : {"allows", "denies", "unreachable"}]

InitConfig ==
    /\ cfg_args \in ConfigArgs
    /\ cfg_pc = "new" /\ cfg_exit = NoExit /\ cfg_net = 0
    /\ MergeIdle /\ FilterIdle /\ PagIdle /\ CrawlIdle /\ ScrapIdle /\ ItemIdle

\* __init__ starts with self._check_instance(...), before the loggers exist
ConfigCheckInstance ==
    /\ cfg_pc = "new"
    /\ LET r == CheckInstance(cfg_args, FALSE)
       IN  IF r = "ok" THEN cfg_pc' = "checked" /\ UNCHANGED cfg_exit
           ELSE cfg_pc' = "aborted" /\ cfg_exit' = ExitStatus(r)
    /\ UNCHANGED <<cfg_args, cfg_net, mergeVars, filterVars, pagVars, crawlVars, scrapVars, itemVars>>

\* The settings, the loggers and the folder, then the robots.txt of the
\* site (fetched when check_robots is set, made up otherwise)
ConfigCheckRobots ==
    /\ cfg_pc = "checked"
    /\ IF cfg_args.check_robots = TRUE
       THEN /\ cfg_net' = cfg_net + 1
            /\ LET r == CheckRobotsTxt(cfg_args.robots, cfg_args.force_crawl)
               IN  IF r = "ok" THEN cfg_pc' = "ready" /\ UNCHANGED cfg_exit
                   ELSE cfg_pc' = "aborted" /\ cfg_exit' = ExitStatus(r)
       ELSE cfg_pc' = "ready" /\ UNCHANGED <<cfg_exit, cfg_net>>
    /\ UNCHANGED <<cfg_args, mergeVars, filterVars, pagVars, crawlVars, scrapVars, itemVars>>

NextConfig == ConfigCheckInstance \/ ConfigCheckRobots
SpecConfig == InitConfig /\ [][NextConfig]_vars

AllLists(args) == \A p \in ParamNames : args[p].is_list
ClassRules(args) ==
    args.threads_class.items \o args.topic_class.items \o args.topic_title_class.items
    \o args.content_class.items
WellFormed(args) ==
    AllLists(args) /\ \A k \in 1..Len(ClassRules(args)) : ~IsRaise(ParseRule(ClassRules(args)[k]))

\* C17: with the root URL denied by robots.txt and force-mode off, startup
\* ends before it is ready, and with a non-zero exit status; with the root
\* allowed or force-mode on (or robots.txt not consulted) startup goes on.
RootDeniedAbortsNonZero ==
    (cfg_pc \in {"ready", "aborted"} /\ AllLists(cfg_args)) =>
        IF cfg_args.check_robots /\ cfg_args.robots = "denies" /\ ~cfg_args.force_crawl
        THEN cfg_pc = "aborted" /\ cfg_exit # NoExit /\ cfg_exit # 0
        ELSE cfg_args.robots # "unreachable" => cfg_pc = "ready"

\* C18 (as stated): an override that is not a list, or a list holding a
\* string outside the rule grammar of its category, aborts configuration
\* before any network request.
MalformedOverrideAborts ==
    (cfg_pc # "new" /\ ~WellFormed(cfg_args)) => (cfg_pc = "aborted" /\ cfg_net = 0)

\* C18 (amended): an override that is not a list aborts configuration
\* before any network request; when all nine are lists, whatever strings
\* they hold, the check lets them pass and nothing aborts before the
\* robots.txt request.
NonListOverrideAborts ==
    cfg_pc # "new" =>
        IF AllLists(cfg_args)
        THEN cfg_pc = "aborted" => cfg_net > 0
        ELSE cfg_pc = "aborted" /\ cfg_exit # NoExit /\ cfg_net = 0

\* Configuration was aborted for a content_class that is not a list, all
\* other overrides being lists.
NonListContentClassAborted ==
    /\ cfg_pc = "aborted" /\ cfg_net = 0
    /\ ~cfg_args.content_class.is_list
    /\ \A p \in ParamNames \ {"content_class"} : cfg_args[p].is_list

\* C33: no retry: when the run has returned, every URL of
\* topics_minus_visited was handed to a worker, once; a URL whose first
\* fetch failed was requested a single time, and the result its worker gave
\* is the skip = 'error' one.
FirstFetchFailed(i) == WebGet(web, topics_minus_visited[i]).status # "ok"
Dispatches(i) == IF i < next_task THEN 1 ELSE 0
EachUrlDispatchedOnceNoRetry ==
    scrap_pc = "returned" =>
        \A i \in 1..Len(topics_minus_visited) :
            /\ Dispatches(i) = 1
            /\ (FirstFetchFailed(i) /\ results[i] # Waiting) =>
                   /\ GetItemTextEvents(topics_minus_visited[i], web, rules, ForumUrl) = <<"get">>
                   /\ ~results[i].exc
                   /\ results[i].txt = <<>>
                   /\ results[i].meta.skip = "error"

\* C34: the visited URLs the workers were given at pool start stay what they
\* were for the whole run: from the start of the pool to the return no step
\* changes the workers' copy or the loaded Visited Records, the copy is the
\* URL column of the loaded records, and no URL of a Visited Record made in
\* this run (in the batch, or written to the store) is in it.
RecordedInRun ==
    visited_urls_dataframe \o SubSeq(visited_file, Len(visited_topics) + 1, Len(visited_file))
SnapshotIsLoadedUrls ==
    /\ Len(all_visited_urls) = Len(visited_topics)
    /\ \A k \in 1..Len(visited_topics) : all_visited_urls[k] = visited_topics[k].Topic_URLs
    /\ \A k \in 1..Len(RecordedInRun) : \A j \in 1..Len(all_visited_urls) :
           all_visited_urls[j] # RecordedInRun[k].Topic_URLs
SnapshotLeftUnchanged ==
    [][(scrap_pc \in {"loop", "final"}) =>
          /\ all_visited_urls' = all_visited_urls
          /\ visited_topics' = visited_topics
          /\ SnapshotIsLoadedUrls /\ SnapshotIsLoadedUrls']_vars

\* The workers hold loaded URLs, the driving loop has recorded a result of
\* this run and a worker is still processing a URL.
WorkerChecksAfterRecord ==
    /\ scrap_pc = "loop"
    /\ all_visited_urls # <<>>
    /\ visited_urls_dataframe # <<>>
    /\ workers # {}

\* C35: every Visited Record made in a run is persisted exactly once: while
\* the loop runs, the store and the batch together hold one record for each
\* handled result and no URL is in both (a checkpoint leaves nothing of
\* what it wrote in the batch); when the run has returned, the store holds
\* exactly one record for each handled result.
UrlCount(records, url) == Cardinality({k \in 1..Len(records) : records[k].Topic_URLs = url})
RecordsMade == {i \in Handled : results[i].meta.skip # "visited"}
EachRecordPersistedOnce ==
    /\ scrap_pc \in {"loop", "final"} =>
           /\ Len(visited_file) + Len(visited_urls_dataframe) = Cardinality(RecordsMade)
           /\ \A i \in RecordsMade :
                  UrlCount(visited_file, topics_minus_visited[i])
                  + UrlCount(visited_urls_dataframe, topics_minus_visited[i]) = 1
    /\ scrap_pc = "returned" =>
           /\ Len(visited_file) = Cardinality(RecordsMade)
           /\ \A i \in RecordsMade : UrlCount(visited_file, topics_minus_visited[i]) = 1

\* The run returned after a checkpoint had written records and the final
\* save wrote the records made after it.
FinalSaveAfterCheckpoint ==
    /\ scrap_pc = "returned"
    /\ visited_urls_dataframe # <<>>
    /\ Len(visited_file) > Len(visited_urls_dataframe)

\* C36: the count _scrap_txt_mp returns is the number of extracted documents:
\* the loaded Visited Records with Visited_flag 1 plus the documents added
\* to the Archive in this run; it is never negative, and not zero when a
\* document was archived in this run or an earlier one.
LoadedDocuments == Cardinality({k \in 1..Len(visited_topics) : visited_topics[k].Visited_flag = 1})
CountIsExtractedDocuments ==
    scrap_pc = "returned" =>
        /\ total_docs = LoadedDocuments + added
        /\ total_docs >= 0
        /\ (LoadedDocuments + added > 0) => total_docs # 0

\* C23: the visited-state store is never ahead of the committed Archive,
\* also when the process is killed between the two writes of a checkpoint
\* or of the final save: every URL the store holds with Visited_flag 1 has
\* its document in the committed Archive.
VisitedStoreNeverAheadOfArchive ==
    \A k \in 1..Len(visited_file) :
        visited_file[k].Visited_flag = 1 =>
            \E j \in 1..Len(archive.committed) :
                archive.committed[j].meta.url = visited_file[k].Topic_URLs
====
